---- MODULE Spec2Model ----
(***************************************************************************)
(* Receipt composition engine of usb-printer-service: payload validation   *)
(* (printer/template.py), normalisation and financial reconciliation       *)
(* (common/interface.py) and the entry points that drive them               *)
(* (server/app.py, printer_cli.py, cli.py, ui/main.py).                    *)
(*                                                                         *)
(* Money and quantities are integers (an amount counts the smallest        *)
(* currency unit).  Python computes with them as floats: a sum, difference *)
(* or product is rounded to the nearest float.  The model's floats have a  *)
(* mantissa of MantissaBits bits, Python's have 53.                        *)
(***************************************************************************)
EXTENDS Integers, Sequences, FiniteSets, TLC

(***************************************************************************)
(* JSON values.  Every value is a record [t, n, s]: t is the JSON type,    *)
(* n the number (t = "num"), s the text (t = "str").  "absent" stands for  *)
(* a key that is not in its dict, "null" for JSON null / Python None,      *)
(* "list" for a JSON array met where a scalar is expected.                 *)
(***************************************************************************)
Absent == [t |-> "absent", n |-> 0, s |-> ""]
None == [t |-> "null", n |-> 0, s |-> ""]
Num(n) == [t |-> "num", n |-> n, s |-> ""]
Str(s) == [t |-> "str", n |-> 0, s |-> s]
List == [t |-> "list", n |-> 0, s |-> ""]

\* Only({e : x \in {v}}) is e with x naming the value of v, computed once
Only(S) == CHOOSE x \in S : TRUE

\* dict.get(key): a missing key reads as None
Get(v) == IF v = Absent THEN None ELSE v

\* float(): the strings Python parses as numbers, and their values
NumericStrings == {"0", "1", "2", "3"}
StrToNum(s) == CASE s = "0" -> 0 [] s = "1" -> 1 [] s = "2" -> 2 [] OTHER -> 3

\* the floats: every integer up to 2^MantissaBits, beyond that every second
\* one, then every fourth, ...
MantissaBits == 4

\* the distance between neighbouring floats around a
RECURSIVE spacing(_)
spacing(a) == IF a <= 2^MantissaBits THEN 1 ELSE 2 * spacing((a + 1) \div 2)

\* the float nearest to x, the one with the even mantissa when x is half way
float_round(x) ==
  Only({Only({
    LET q == a \div u
        rem == a % u
        near == IF 2 * rem < u THEN q * u
                ELSE IF 2 * rem > u THEN (q + 1) * u
                ELSE IF q % 2 = 0 THEN q * u ELSE (q + 1) * u
    IN  IF x < 0 THEN 0 - near ELSE near
    : u \in {spacing(a)}}) : a \in {IF x < 0 THEN 0 - x ELSE x}})

float_add(x, y) == float_round(x + y)
float_sub(x, y) == float_round(x - y)
float_mul(x, y) == float_round(x * y)

\* float(v): the exception it raises ("none" when it returns)
FloatExc(v) ==
  CASE v.t = "num" -> "none"
    [] v.t = "str" -> IF v.s \in NumericStrings THEN "none" ELSE "ValueError"
    [] OTHER -> "TypeError"

\* float(v): the number it returns
FloatVal(v) == IF v.t = "str" THEN StrToNum(v.s) ELSE v.n

\* str(v) as validate_payload applies it to names and header/footer values
StrOf(v) == IF v.t = "num" THEN Str(ToString(v.n)) ELSE Str(v.s)

(***************************************************************************)
(* Dicts with insertion order: a sequence of [k, v] entries, keys unique.  *)
(* A dict-valued field is [t, d]: t its JSON type, d the entries.          *)
(***************************************************************************)
Dict(d) == [t |-> "dict", d |-> d]
NoDict(t) == [t |-> t, d |-> <<>>]

HasKey(d, k) == \E i \in 1..Len(d) : d[i].k = k
Lookup(d, k) == d[CHOOSE i \in 1..Len(d) : d[i].k = k].v

\* d[k] = v: an existing key keeps its position, a new key goes last
DictSet(dict, k, value) ==
  Only({IF HasKey(d, k)
        THEN [i \in 1..Len(d) |-> IF d[i].k = k THEN [k |-> k, v |-> v] ELSE d[i]]
        ELSE Append(d, [k |-> k, v |-> v]) : d \in {dict}, v \in {value}})

\* the transaction block: the four keys the code reads and one it ignores
Tx(t, r, c, d, tot, note) ==
  [t |-> t, received |-> r, change |-> c, discount |-> d, total |-> tot, note |-> note]
EmptyTx == Tx("dict", Absent, Absent, Absent, Absent, Absent)
NoTx(t) == Tx(t, Absent, Absent, Absent, Absent, Absent)

\* an item of the payload: a JSON object, or (t = "num") something else
ItemOf(name, amount, quantity) ==
  [t |-> "dict", name |-> name, amount |-> amount, quantity |-> quantity]
NotAnItem == [t |-> "num", name |-> Absent, amount |-> Absent, quantity |-> Absent]

ItemList(l) == [t |-> "list", l |-> l]
NoItems(t) == [t |-> t, l |-> <<>>]

(***************************************************************************)
(* A request payload.  items, header_info, footer_info, transaction_info   *)
(* are the canonical keys; customer, transection, promotion, points,       *)
(* total, extras the legacy ones.  t = "dict" for a JSON object, "list"    *)
(* for a body that is some other JSON value, "invalid" for a body that is  *)
(* no JSON at all.                                                         *)
(***************************************************************************)
Payload(items, header, footer, tx, customer, transection, promotion, points, total, extras) ==
  [t |-> "dict", items |-> items, header_info |-> header, footer_info |-> footer,
   transaction_info |-> tx, customer |-> customer, transection |-> transection,
   promotion |-> promotion, points |-> points, total |-> total, extras |-> extras]

Canonical(items, header, footer, tx) ==
  Payload(items, header, footer, tx, NoDict("absent"), Absent, Absent, Absent, Absent,
          NoTx("absent"))

NotAnObject(t) ==
  [Canonical(NoItems("absent"), NoDict("absent"), NoDict("absent"), NoTx("absent"))
     EXCEPT !.t = t]

\* Item.line_total
line_total(item) == float_mul(item.amount, item.quantity)

\* sum(item.line_total for item in items): the running sum from its start 0,
\* one float addition per item in list order.  The sum over the first half of
\* the list is the start of the sum over the second half, so that a long list
\* nests no deeper than a short one.
RECURSIVE SumFrom(_, _)
SumFrom(acc, items) ==
  IF items = <<>> THEN acc
  ELSE IF Len(items) = 1 THEN float_add(acc, line_total(items[1]))
  ELSE Only({SumFrom(first, SubSeq(items, (Len(items) \div 2) + 1, Len(items)))
             : first \in {SumFrom(acc, SubSeq(items, 1, Len(items) \div 2))}})

SumLineTotals(items) == SumFrom(0, items)

\* the record of a call that raised
NoInfo ==
  [header_info |-> NoDict("absent"), footer_info |-> NoDict("absent"), items |-> <<>>,
   received |-> None, change |-> None, discount |-> None, total |-> None,
   header_ref |-> "none", footer_ref |-> "none"]

Raised(exc, payload) == [exc |-> exc, info |-> NoInfo, payload |-> payload, calls |-> 1]

_is_legacy_format(payload) ==
  \/ payload.customer.t # "absent"
  \/ payload.transection # Absent
  \/ payload.promotion # Absent
  \/ payload.points # Absent
  \/ payload.extras.t # "absent"

_to_float_or_none(value) == IF value = None THEN None ELSE Num(FloatVal(value))

\* Item(name=i["name"], amount=float(i["amount"]), quantity=float(i["quantity"])):
\* the exception one element of payload["items"] raises
ItemExc(i) ==
  IF i.t # "dict" THEN "TypeError"
  ELSE IF i.name = Absent THEN "KeyError"
  ELSE IF i.amount = Absent THEN "KeyError"
  ELSE IF FloatExc(i.amount) # "none" THEN FloatExc(i.amount)
  ELSE IF i.quantity = Absent THEN "KeyError"
  ELSE FloatExc(i.quantity)

\* the list comprehension over payload["items"]: the first exception raised
ItemsExc(items) ==
  IF items.t # "list" THEN "TypeError"
  ELSE IF \E k \in 1..Len(items.l) : ItemExc(items.l[k]) # "none"
       THEN LET k == CHOOSE j \in 1..Len(items.l) :
                       /\ ItemExc(items.l[j]) # "none"
                       /\ \A h \in 1..(j - 1) : ItemExc(items.l[h]) = "none"
            IN  ItemExc(items.l[k])
       ELSE "none"

ParseItems(items) ==
  [k \in 1..Len(items.l) |->
     [name |-> items.l[k].name,
      amount |-> FloatVal(items.l[k].amount),
      quantity |-> FloatVal(items.l[k].quantity)]]

\* the four _to_float_or_none(tx.get(...)) calls: the first exception raised
TxExc(tx) ==
  IF FloatExc(Get(tx.received)) # "none" /\ Get(tx.received) # None
    THEN FloatExc(Get(tx.received))
  ELSE IF FloatExc(Get(tx.change)) # "none" /\ Get(tx.change) # None
    THEN FloatExc(Get(tx.change))
  ELSE IF FloatExc(Get(tx.discount)) # "none" /\ Get(tx.discount) # None
    THEN FloatExc(Get(tx.discount))
  ELSE IF FloatExc(Get(tx.total)) # "none" /\ Get(tx.total) # None
    THEN FloatExc(Get(tx.total))
  ELSE "none"

\* a total that is not supplied stays None
LeaveTotal(total, items_total) == total

\* if total is None: total = items_total
TotalFromItems(total, items_total) ==
  IF total = None THEN Num(items_total) ELSE total

\* if discount is not None and total == items_total: total = items_total - discount
ApplyDiscount(total, discount, items_total) ==
  IF discount # None /\ total.n = items_total
  THEN Num(float_sub(items_total, discount.n)) ELSE total

\* received and change never override the total
KeepTotal(total, received, change) == total

\* if received is not None and change is not None: total = received - change
AuthoritativeTotal(total, received, change) ==
  IF received # None /\ change # None THEN Num(float_sub(received.n, change.n)) ELSE total

\* the change is never derived
KeepChange(change, received, total) == change

\* if received is not None and change is None: change = received - total
DeriveChange(change, received, total) ==
  IF received # None /\ change = None THEN Num(float_sub(received.n, total.n)) ELSE change

\* the received amount is never derived
KeepReceived(received, change, total) == received

\* if change is not None and received is None: received = total + change
DeriveReceived(received, change, total) ==
  IF change # None /\ received = None THEN Num(float_add(total.n, change.n)) ELSE received

\* the discount is never inferred
KeepDiscount(discount, received, change, total, items_total) == discount

\* if received is not None and change is not None and discount is None:
\*     discount = items_total - total
InferDiscount(discount, received, change, total, items_total) ==
  IF received # None /\ change # None /\ discount = None
  THEN Num(float_sub(items_total, total.n)) ELSE discount

\* the business rules, in the order of the code
Reconcile(tx, items_total) ==
  Only({Only({Only({Only({
    [received |-> received1, change |-> change1, total |-> total,
     discount |-> InferDiscount(discount0, received1, change1, total, items_total)]
    : received1 \in {DeriveReceived(received0, change1, total)}})
    : change1 \in {DeriveChange(change0, received0, total)}})
    : total \in {AuthoritativeTotal(
                   ApplyDiscount(TotalFromItems(total0, items_total), discount0, items_total),
                   received0, change0)}})
    : received0 \in {_to_float_or_none(Get(tx.received))},
      change0 \in {_to_float_or_none(Get(tx.change))},
      discount0 \in {_to_float_or_none(Get(tx.discount))},
      total0 \in {_to_float_or_none(Get(tx.total))}})

\* the footer starts from a new dict whatever the caller supplied
PopulateNewFooter(d, r) ==
  LET d1 == IF r.received # None THEN DictSet(<<>>, "Received", r.received) ELSE <<>>
      d2 == IF r.change # None THEN DictSet(d1, "Change", r.change) ELSE d1
  IN  IF r.discount # None THEN DictSet(d2, "Discount", r.discount) ELSE d2

\* footer_info["Received"/"Change"/"Discount"] = ... for the non-null ones
PopulateFooter(d, r) ==
  Only({Only({IF r.discount # None THEN DictSet(d2, "Discount", r.discount) ELSE d2
              : d2 \in {IF r.change # None THEN DictSet(d1, "Change", r.change) ELSE d1}})
        : d1 \in {IF r.received # None THEN DictSet(d, "Received", r.received) ELSE d}})

\* payload.get(key, {}) or {}: a missing, null or empty value gives a new dict
Falsy(f) == f.t \in {"absent", "null"} \/ (f.t = "dict" /\ f.d = <<>>)
TxFalsy(tx) == tx.t \in {"absent", "null"} \/ tx = EmptyTx

\* header_info[f"Customer {key.capitalize()}"]
capitalize(key) ==
  CASE key = "name" -> "Name"
    [] key = "NAME" -> "Name"
    [] key = "code" -> "Code"
    [] OTHER -> key

RECURSIVE CustomerHeader(_, _)
CustomerHeader(customer, header) ==
  IF customer = <<>> THEN header
  ELSE Only({CustomerHeader(Tail(customer), h)
             : h \in {DictSet(header, "Customer " \o capitalize(Head(customer).k),
                                Head(customer).v)}})

\* the top-level total is not copied
LegacyTxExtrasOnly(payload) ==
  LET e == payload.extras
  IN  Tx("dict", e.received, e.change, e.discount, e.total, e.note)

\* tx_info = {}; tx_info["total"] = payload["total"]; tx_info.update(payload["extras"])
LegacyTx(payload) ==
  LET e == payload.extras
      top == payload.total
  IN  IF e.t = "absent" THEN Tx("dict", Absent, Absent, Absent, top, Absent)
      ELSE Tx("dict", e.received, e.change, e.discount,
              IF e.total # Absent THEN e.total ELSE top, e.note)

\* the exception from_legacy_dict raises before it calls from_dict again
LegacyExc(payload) ==
  IF payload.customer.t \notin {"absent", "dict"} THEN "AttributeError"
  ELSE IF payload.extras.t = "null" THEN "TypeError"
  ELSE IF payload.extras.t = "str" THEN "ValueError"
  ELSE "none"

\* the customer block stays in new_payload as long as there are points to move
LegacyPayloadWithCustomer(payload) ==
  [Canonical(payload.items, Dict(<<>>), Dict(<<>>), LegacyTx(payload))
     EXCEPT !.customer = IF payload.points # Absent THEN payload.customer
                         ELSE NoDict("absent")]

\* new_payload of from_legacy_dict
LegacyPayload(payload) ==
  Only({Only({Only({
    LET f1 == IF payload.points # Absent
              THEN DictSet(<<>>, "Points", payload.points) ELSE <<>>
    IN  Canonical(payload.items, Dict(h3), Dict(f1), LegacyTx(payload))
    : h3 \in {IF payload.promotion # Absent
              THEN DictSet(h2, "Promotion", payload.promotion) ELSE h2}})
    : h2 \in {IF payload.transection # Absent
              THEN DictSet(h1, "Transaction", payload.transection) ELSE h1}})
    : h1 \in {IF payload.customer.t = "dict"
              THEN CustomerHeader(payload.customer.d, <<>>) ELSE <<>>}})

RECURSIVE from_dict(_)
RECURSIVE from_legacy_dict(_)

\* PayloadInfo.from_legacy_dict: the caller's payload is only read; the record is
\* built from new_payload, a dict of its own
from_legacy_dict(payload) ==
  IF LegacyExc(payload) # "none" THEN Raised(LegacyExc(payload), payload)
  ELSE Only({[exc |-> r.exc,
              info |-> IF r.exc = "none"
                       THEN [r.info EXCEPT !.header_ref = "new", !.footer_ref = "new"]
                       ELSE NoInfo,
              payload |-> payload,
              calls |-> r.calls + 1] : r \in {from_dict(LegacyPayload(payload))}})

\* from_dict from "footer Info population" on: the footer entries written and the
\* record returned; after is the payload object as the writes leave it
BuildInfo(payload, items, r) ==
  LET f == payload.footer_info
      fresh == Falsy(f)
      writes == r.received # None \/ r.change # None \/ r.discount # None
  IN  Only({
        LET after == IF fresh THEN payload ELSE [payload EXCEPT !.footer_info = footer]
        IN  IF ~fresh /\ f.t # "dict" /\ writes THEN Raised("TypeError", payload)
            ELSE IF payload.header_info.t = "absent" THEN Raised("KeyError", after)
            ELSE [exc |-> "none",
                  info |-> [header_info |-> payload.header_info,
                            footer_info |-> footer,
                            items |-> items,
                            received |-> r.received,
                            change |-> r.change,
                            discount |-> r.discount,
                            total |-> r.total,
                            header_ref |-> "payload.header_info",
                            footer_ref |-> IF fresh THEN "new" ELSE "payload.footer_info"],
                  payload |-> after,
                  calls |-> 1]
        : footer \in {IF fresh THEN Dict(PopulateFooter(<<>>, r))
                      ELSE IF f.t = "dict" THEN Dict(PopulateFooter(f.d, r))
                      ELSE f}})

\* PayloadInfo.from_dict.  The result holds the exception raised ("none" if it
\* returned), the record, the payload object as the call leaves it, and the number
\* of from_dict calls made.  header_ref / footer_ref name the dict object the
\* record's header_info / footer_info refers to.
from_dict(arg) ==
  Only({
    IF payload.items.t = "absent" THEN Raised("ValueError", payload)
    ELSE IF _is_legacy_format(payload) THEN from_legacy_dict(payload)
    ELSE IF ItemsExc(payload.items) # "none" THEN Raised(ItemsExc(payload.items), payload)
    ELSE IF ~TxFalsy(payload.transaction_info) /\ payload.transaction_info.t # "dict"
      THEN Raised("AttributeError", payload)
    ELSE
      LET tx == IF TxFalsy(payload.transaction_info) THEN EmptyTx
                ELSE payload.transaction_info
      IN  IF TxExc(tx) # "none" THEN Raised(TxExc(tx), payload)
          ELSE Only({Only({Only({BuildInfo(payload, items, r)
                 : r \in {Reconcile(tx, items_total)}})
                 : items_total \in {SumLineTotals(items)}})
                 : items \in {ParseItems(payload.items)}})
    : payload \in {arg}})

(***************************************************************************)
(* printer/template.py: validate_payload.  The result holds the exception  *)
(* raised ("none" if it returned) and data, the sanitized copy returned.   *)
(***************************************************************************)
\* one element of payload["items"]: the exception the loop body raises
ValidateItemExc(item) ==
  IF item.t # "dict" THEN "ValueError"
  ELSE IF Get(item.name) = None \/ Get(item.amount) = None \/ Get(item.quantity) = None
    THEN "ValueError"
  ELSE IF FloatExc(item.amount) # "none" THEN FloatExc(item.amount)
  ELSE FloatExc(item.quantity)

ValidateItemsExc(l) ==
  IF \E k \in 1..Len(l) : ValidateItemExc(l[k]) # "none"
  THEN LET k == CHOOSE j \in 1..Len(l) :
                  /\ ValidateItemExc(l[j]) # "none"
                  /\ \A h \in 1..(j - 1) : ValidateItemExc(l[h]) = "none"
       IN  ValidateItemExc(l[k])
  ELSE "none"

sanitized_items(l) ==
  [k \in 1..Len(l) |->
     ItemOf(StrOf(l[k].name), Num(FloatVal(l[k].amount)), Num(FloatVal(l[k].quantity)))]

\* sanitized_header / sanitized_footer: "" for None, str(value) otherwise
sanitized_dict(d) ==
  [k \in 1..Len(d) |-> [k |-> d[k].k, v |-> IF d[k].v = None THEN Str("") ELSE StrOf(d[k].v)]]

SanitizedInfo(f) ==
  IF f.t \in {"absent", "null"} THEN Dict(<<>>) ELSE Dict(sanitized_dict(f.d))

\* float(value) raising ValueError or TypeError, for a value that is not None
TxValueBad(v) == Get(v) # None /\ FloatExc(v) # "none"

sanitized_value(v) == IF Get(v) = None THEN None ELSE Num(FloatVal(v))

sanitized_transaction(tx) ==
  IF tx.t \in {"absent", "null"} THEN EmptyTx
  ELSE Tx("dict", sanitized_value(tx.received), sanitized_value(tx.change),
          sanitized_value(tx.discount), sanitized_value(tx.total), Absent)

validate_payload(payload) ==
  LET fail(exc) == [exc |-> exc, data |-> payload]
  IN  IF payload.t # "dict" THEN fail("ValueError")
      ELSE IF payload.items.t # "list" \/ payload.items.l = <<>> THEN fail("ValueError")
      ELSE IF ValidateItemsExc(payload.items.l) # "none"
        THEN fail(ValidateItemsExc(payload.items.l))
      ELSE IF payload.header_info.t \notin {"absent", "null", "dict"} THEN fail("ValueError")
      ELSE IF payload.footer_info.t \notin {"absent", "null", "dict"} THEN fail("ValueError")
      ELSE IF payload.transaction_info.t \notin {"absent", "null", "dict"}
        THEN fail("ValueError")
      ELSE IF \/ TxValueBad(payload.transaction_info.received)
              \/ TxValueBad(payload.transaction_info.change)
              \/ TxValueBad(payload.transaction_info.discount)
              \/ TxValueBad(payload.transaction_info.total)
        THEN fail("ValueError")
      ELSE [exc |-> "none",
            data |-> [payload EXCEPT
                        !.items = ItemList(sanitized_items(payload.items.l)),
                        !.header_info = SanitizedInfo(payload.header_info),
                        !.footer_info = SanitizedInfo(payload.footer_info),
                        !.transaction_info = sanitized_transaction(payload.transaction_info)]]

(***************************************************************************)
(* printer/renderer.py: generate_receipt_image / ReceiptRenderer.render.   *)
(* render reads info.items, info.header_info and info.footer_info and      *)
(* assigns to neither the record nor the configuration; the result holds   *)
(* the amount drawn on the TOTAL line and the record as render leaves it.  *)
(***************************************************************************)
render(info) ==
  [total |-> SumLineTotals(info.items),
   header_rows |-> IF info.header_info.t = "dict" THEN Len(info.header_info.d) ELSE 0,
   footer_rows |-> IF info.footer_info.t = "dict" THEN Len(info.footer_info.d) ELSE 0,
   info |-> info]

\* width of the bitmap when generate_receipt_image is called without width
DefaultWidth == 384

\* generate_receipt_image(layout_cfg, info) as the entry points call it: the
\* width argument is left out, the bitmap has the default width
generate_receipt_image(info) ==
  Only({[total |-> b.total, header_rows |-> b.header_rows, footer_rows |-> b.footer_rows,
         info |-> b.info, width |-> DefaultWidth] : b \in {render(info)}})

NoImage ==
  [total |-> 0, header_rows |-> 0, footer_rows |-> 0, info |-> NoInfo, width |-> 0]

(***************************************************************************)
(* cli.py: build_receipt_text reads data["customer"] and data["total"] of  *)
(* the validated payload; the exception it raises ("none" if it returns).  *)
(***************************************************************************)
build_receipt_text(data) ==
  IF data.customer.t = "absent" THEN "KeyError"
  ELSE IF data.customer.t # "dict" THEN "AttributeError"
  ELSE IF data.total = Absent THEN "KeyError"
  ELSE IF data.total.t = "str" THEN "ValueError"
  ELSE IF data.total.t # "num" THEN "TypeError"
  ELSE IF data.extras.t = "str" THEN "AttributeError"
  ELSE "none"

(***************************************************************************)
(* The payloads the entry points are driven with.                          *)
(***************************************************************************)
MaxMoney == 2
MaxItems == 2

Money == 0..MaxMoney
OptMoney == {Absent} \cup {Num(m) : m \in Money}

Gas == ItemOf(Str("Gasoline 95"), Num(1), Num(1))
Water == ItemOf(Str("Water Bottle"), Num(1), Num(2))
ItemPool == {Gas, Water}
WellItems == UNION {[1..k -> ItemPool] : k \in 1..MaxItems}

Entry(k, v) == [k |-> k, v |-> v]
Header1 == Dict(<<Entry("Cashier", Str("Ann"))>>)
FooterNoteReceived == Dict(<<Entry("Note", Str("x")), Entry("Received", Str("old"))>>)

AllTx == {Tx("dict", r, c, d, tot, Absent) : r \in OptMoney, c \in OptMoney,
                                             d \in OptMoney, tot \in OptMoney}

\* every supplied / not supplied pattern of received, change, discount
SmallTx ==
  {Tx("dict", r, c, d, Absent, Absent) :
     r \in {Absent, Num(2)}, c \in {Absent, Num(1)}, d \in {Absent, Num(1)}}
  \cup {NoTx("absent"), NoTx("null")}

FooterPool ==
  {NoDict("absent"), NoDict("null"), Dict(<<>>),
   Dict(<<Entry("Note", Str("x"))>>),
   Dict(<<Entry("Received", Str("old")), Entry("Note", Str("x"))>>),
   Dict(<<Entry("Note", Str("x")), Entry("Change", Str("old"))>>),
   Dict(<<Entry("Discount", Str("old"))>>),
   Dict(<<Entry("Note", None)>>)}

HeaderPool == {NoDict("absent"), NoDict("null"), Dict(<<>>), Header1}

\* canonical payloads: every transaction block over every item list
ReconcilePayloads ==
  {Canonical(ItemList(l), Header1, f, tx) :
     l \in WellItems, f \in {NoDict("absent"), FooterNoteReceived}, tx \in AllTx}

\* canonical payloads: every header and footer shape
FooterPayloads ==
  {Canonical(ItemList(<<Gas, Water>>), h, f, tx) :
     h \in HeaderPool, f \in FooterPool, tx \in SmallTx}

\* canonical payloads that supply an amount below zero
NegativePayloads ==
  {Canonical(ItemList(<<Gas>>), Header1, NoDict("absent"), Tx("dict", r, c, d, tot, Absent)) :
     r \in {Absent, Num(-1), Num(1)}, c \in {Absent, Num(-1), Num(1)},
     d \in {Absent, Num(-1), Num(1)}, tot \in {Absent, Num(-1), Num(1)}}

\* canonical payloads whose numbers arrive as numeric strings, the name as a number
CoercedPayloads ==
  {Canonical(ItemList(<<ItemOf(Num(7), Str("2"), Str("1"))>>), Header1, NoDict("absent"),
             Tx("dict", Str("3"), Absent, Absent, Absent, Absent))}

\* canonical payloads with an amount so large that the amount derived from it
\* falls between two floats
RoundingPayloads ==
  {Canonical(ItemList(<<Gas>>), Header1, NoDict("absent"),
             Tx("dict", r, c, Absent, Absent, Absent)) :
     r \in {Absent, Num(2^MantissaBits + 2)}, c \in {Absent, Num(2^MantissaBits)}}

CustomerPool ==
  {NoDict("absent"),
   Dict(<<Entry("name", Str("Bob"))>>),
   Dict(<<Entry("name", Str("Bob")), Entry("code", Str("CT-1"))>>),
   Dict(<<Entry("name", Str("Bob")), Entry("NAME", Str("Al"))>>)}

ExtrasPool ==
  {NoTx("absent"), EmptyTx,
   Tx("dict", Num(2), Absent, Absent, Absent, Absent),
   Tx("dict", Num(2), Num(1), Absent, Absent, Absent),
   Tx("dict", Absent, Absent, Num(1), Absent, Str("n")),
   Tx("dict", Absent, Absent, Absent, Num(2), Absent)}

\* legacy payloads (and, with every legacy key but total absent, canonical ones
\* that carry a top-level total)
LegacyPayloads ==
  {Payload(ItemList(<<Gas, Water>>), NoDict("absent"), NoDict("absent"), NoTx("absent"),
           cu, tr, pr, po, tot, ex) :
     cu \in CustomerPool, tr \in {Absent, Str("TXN-1")}, pr \in {Absent, Str("Promo")},
     po \in {Absent, Str("150")}, tot \in {Absent, Num(1)}, ex \in ExtrasPool}

\* payloads that hold canonical blocks and a legacy key
MixedPayloads == {[p EXCEPT !.points = Str("150")] : p \in FooterPayloads}

Base == Canonical(ItemList(<<Gas, Water>>), Header1, NoDict("absent"), NoTx("absent"))
LegacyBase ==
  Payload(ItemList(<<Gas, Water>>), NoDict("absent"), NoDict("absent"), NoTx("absent"),
          Dict(<<Entry("name", Str("Bob"))>>), Str("TXN-1"), Absent, Str("150"), Num(3),
          EmptyTx)
BadStr == Str("abc")

\* one defect each: a missing or ill-typed required field, a value that is no number
MalformedItems ==
  {NoItems("absent"), NoItems("null"), NoItems("str"), ItemList(<<>>),
   ItemList(<<NotAnItem>>), ItemList(<<Gas, NotAnItem>>)}
  \cup {ItemList(<<[Gas EXCEPT !.name = v]>>) : v \in {Absent, None}}
  \cup {ItemList(<<[Gas EXCEPT !.amount = v]>>) : v \in {Absent, None, BadStr, List}}
  \cup {ItemList(<<Water, [Gas EXCEPT !.quantity = v]>>) : v \in {Absent, None, BadStr, List}}

MalformedPayloads ==
  {NotAnObject("invalid"), NotAnObject("list")}
  \cup {[Base EXCEPT !.items = i] : i \in MalformedItems}
  \cup {[LegacyBase EXCEPT !.items = i] : i \in MalformedItems}
  \cup {[Base EXCEPT !.header_info = NoDict("str")],
        [Base EXCEPT !.footer_info = NoDict("str")],
        [Base EXCEPT !.transaction_info = NoTx("str")],
        [Base EXCEPT !.transaction_info = Tx("dict", BadStr, Absent, Absent, Absent, Absent)],
        [Base EXCEPT !.transaction_info = Tx("dict", Num(2), Absent, Absent, List, Absent)],
        [LegacyBase EXCEPT !.customer = NoDict("str")],
        [LegacyBase EXCEPT !.customer = NoDict("null")],
        [LegacyBase EXCEPT !.extras = NoTx("null")],
        [LegacyBase EXCEPT !.extras = NoTx("str")],
        [LegacyBase EXCEPT !.extras = Tx("dict", BadStr, Absent, Absent, Absent, Absent)],
        [LegacyBase EXCEPT !.extras = Tx("dict", Absent, Absent, List, Absent, Absent)],
        [LegacyBase EXCEPT !.total = BadStr]}

WellFormedPayloads ==
  ReconcilePayloads \cup NegativePayloads \cup FooterPayloads \cup CoercedPayloads
  \cup LegacyPayloads
  \cup MixedPayloads
  \cup RoundingPayloads

Payloads == WellFormedPayloads \cup MalformedPayloads

(***************************************************************************)
(* printer/renderer.py: text measurement.  A text is a sequence of         *)
(* one-character strings; a font is what _load_font returned, a TrueType   *)
(* face of a pixel size or Pillow's built-in face.  font.getlength adds    *)
(* the advances of the characters; the advance of a character grows with   *)
(* the size of the face.                                                   *)
(***************************************************************************)
Font(kind, size) == [kind |-> kind, size |-> size]

advance(font, c) ==
  IF c = "W" THEN font.size
  ELSE IF c = " " THEN font.size \div 4
  ELSE font.size \div 2

RECURSIVE getlength(_, _)
getlength(font, text) ==
  IF text = <<>> THEN 0 ELSE advance(font, Head(text)) + getlength(font, Tail(text))

\* font.getbbox(line): bbox[3] - bbox[1], the height of the ink of the line
bbox_height(font, line) == IF line = <<>> THEN 0 ELSE font.size

\* str.split(sep): the pieces between the separators, at least one piece.
\* SeparatorAt(text, sep, k) is the place of the k-th separator, 0 before the first
\* and Len(text) + 1 after the last.
SeparatorAt(text, sep, k) ==
  Only({IF k = 0 THEN 0
        ELSE IF k > Cardinality(seps) THEN Len(text) + 1
        ELSE CHOOSE i \in seps : Cardinality({j \in seps : j < i}) = k - 1
        : seps \in {{i \in 1..Len(text) : text[i] = sep}}})

split(text, sep) ==
  [k \in 1..(Cardinality({i \in 1..Len(text) : text[i] = sep}) + 1)
     |-> SubSeq(text, SeparatorAt(text, sep, k - 1) + 1, SeparatorAt(text, sep, k) - 1)]

\* " ".join(words)
RECURSIVE join(_)
join(words) ==
  IF words = <<>> THEN <<>>
  ELSE IF Len(words) = 1 THEN Head(words)
  ELSE Head(words) \o <<" ">> \o join(Tail(words))

(***************************************************************************)
(* ReceiptRenderer.wrap_text.  WrapWords is the loop over the words of one *)
(* paragraph that is wider than max_width, with the lines flushed so far   *)
(* and current_line; WrapParagraphs the loop over the paragraphs.          *)
(***************************************************************************)
Fits(font, line, max_width) == getlength(font, line) <= max_width

\* the word fits behind current_line
KeepAccumulating(lines, current_line, word) ==
  [lines |-> lines, current_line |-> Append(current_line, word)]

\* the word goes behind current_line although it does not fit
NeverFlush(lines, current_line, word) ==
  [lines |-> lines, current_line |-> Append(current_line, word)]

\* the word does not fit behind current_line: flush current_line and start
\* the next line with the word, or emit the word alone
FlushLine(lines, current_line, word) ==
  IF current_line # <<>>
    THEN [lines |-> Append(lines, join(current_line)), current_line |-> <<word>>]
  ELSE [lines |-> Append(lines, word), current_line |-> <<>>]

RECURSIVE WrapWords(_, _, _, _, _)
WrapWords(words, lines, current_line, font, max_width) ==
  IF words = <<>>
    THEN IF current_line # <<>> THEN Append(lines, join(current_line)) ELSE lines
  ELSE Only({WrapWords(Tail(words), s.lines, s.current_line, font, max_width)
             : s \in {IF Fits(font, join(Append(current_line, Head(words))), max_width)
                        THEN KeepAccumulating(lines, current_line, Head(words))
                      ELSE FlushLine(lines, current_line, Head(words))}})

RECURSIVE WrapParagraphs(_, _, _, _)
WrapParagraphs(paragraphs, lines, font, max_width) ==
  IF paragraphs = <<>> THEN lines
  ELSE Only({WrapParagraphs(Tail(paragraphs), l, font, max_width)
             : l \in {IF Fits(font, Head(paragraphs), max_width)
                        THEN Append(lines, Head(paragraphs))
                      ELSE WrapWords(split(Head(paragraphs), " "), lines, <<>>,
                                     font, max_width)}})

wrap_text(text, font, max_width) ==
  IF text = <<>> THEN <<>>
  ELSE WrapParagraphs(split(text, "\n"), <<>>, font, max_width)

(***************************************************************************)
(* The files a configuration names.  Image.open and ImageFont.truetype     *)
(* succeed on a readable file of the right kind and raise on a path that   *)
(* does not exist or a file that cannot be decoded.                        *)
(***************************************************************************)
NoFile == ""
LogoFile == "assets/logo.png"
MissingFile == "assets/missing.png"
CorruptFile == "assets/corrupt.png"
FontFile == "assets/fonts/Sarabun/Sarabun-SemiBold.ttf"
MissingFont == "assets/fonts/missing.ttf"

LogoWidth == 96
LogoHeight == 48

\* get_real_path: the path of the named file under the application directory
get_real_path(path) == [base |-> "app", name |-> path]

exists(real_path) == real_path.name \in {LogoFile, CorruptFile, FontFile}

\* Image.open(path): the exception it raises ("none" when the image opens)
ImageOpenExc(real_path) ==
  IF ~exists(real_path) THEN "FileNotFoundError"
  ELSE IF real_path.name # LogoFile THEN "UnidentifiedImageError"
  ELSE "none"

\* ImageFont.truetype(path, size): the exception it raises
TruetypeExc(real_path) == IF real_path.name = FontFile THEN "none" ELSE "OSError"

\* the image Image.open returns
ImageOpen(real_path) == [width |-> LogoWidth, height |-> LogoHeight]

(***************************************************************************)
(* ReceiptRenderer.  The object holds target_width, line_spacing, the two  *)
(* fonts, the cursor y and the canvas im.  The canvas is the sequence of   *)
(* the marks drawn on it, in drawing order: a mark is a text line, a       *)
(* dashed rule or a pasted image with its origin (x, y) and its width.     *)
(***************************************************************************)
PADDING == 0
V_PADDING == 0
BOTTOM_PADDING == 10
DefaultFontSize == 10

\* self.temp_h: the height of the canvas render draws on
temp_h == 2000

Max(a, b) == IF a >= b THEN a ELSE b

\* int(size * SCALE_FACTOR)
Scaled(size) == (size * 8) \div 10

\* ImageFont.truetype(path, size), and load_default() when it raises IOError
_load_font(path, size) ==
  IF TruetypeExc(path) = "none" THEN Font("truetype", size)
  ELSE Font("default", DefaultFontSize)

\* ReceiptRenderer.__init__
ReceiptRenderer(config, width) ==
  Only({[config |-> config,
         target_width |-> width,
         line_spacing |-> config.line_spacing * 2,
         title_font |-> _load_font(font_path, Max(10, Scaled(config.font_size))),
         body_font |-> _load_font(font_path, Max(8, Scaled(config.font_size_small))),
         im |-> <<>>,
         y |-> V_PADDING]
        : font_path \in {get_real_path(config.font_path)}})

Mark(kind, align, x, y, w, text) ==
  [kind |-> kind, align |-> align, x |-> x, y |-> y, w |-> w, text |-> text]

\* self.draw.text((x, y), line, font=font, fill=0)
draw_text(r, align, x, y, line, font) ==
  [r EXCEPT !.im = Append(@, Mark("text", align, x, y, getlength(font, line), line))]

Advance(r, dy) == [r EXCEPT !.y = @ + dy]

\* x of a centered line
CenterX(target_width, length) == (target_width - length) \div 2

\* x of a right-aligned text
RightX(target_width, tw) == target_width - PADDING - tw

\* the loop of draw_centered_text over the wrapped lines
RECURSIVE DrawCentered(_, _, _)
DrawCentered(r, lines, font) ==
  IF lines = <<>> THEN r
  ELSE Only({DrawCentered(Advance(d, bbox_height(font, Head(lines)) + 4), Tail(lines), font)
             : d \in {draw_text(r, "center",
                                CenterX(r.target_width, getlength(font, Head(lines))),
                                r.y, Head(lines), font)}})

draw_centered_text(r, text, font) ==
  IF text = <<>> THEN r
  ELSE DrawCentered(r, wrap_text(text, font, r.target_width - (2 * PADDING)), font)

draw_keyvalue_text(r, key, value) ==
  IF key = <<>> \/ value = <<>> THEN r
  ELSE Only({Advance(draw_text(k, "right",
                               RightX(r.target_width, getlength(r.body_font, value)),
                               r.y, value, r.body_font),
                     bbox_height(r.body_font, value) + 10)
             : k \in {draw_text(r, "left", PADDING, r.y, key, r.body_font)}})

\* the column widths of draw_3_columns, 5:1:2 with the remainder in col3
ColumnWidths(available_width) ==
  [col1 |-> (available_width * 5) \div 8,
   col2 |-> available_width \div 8,
   col3 |-> available_width - ((available_width * 5) \div 8) - (available_width \div 8)]

\* one column of one line of the row: drawn if the column has an i-th line
DrawCell(r, lines, i, align, x, cur_y) ==
  IF i <= Len(lines) THEN draw_text(r, align, x, cur_y, lines[i], r.body_font) ELSE r

Column2X(r, w, lines, i) ==
  IF i <= Len(lines)
    THEN PADDING + w.col1 + CenterX(w.col2, getlength(r.body_font, lines[i]))
  ELSE 0

Column3X(r, lines, i) ==
  IF i <= Len(lines) THEN RightX(r.target_width, getlength(r.body_font, lines[i])) ELSE 0

\* the loop of draw_3_columns over the lines of the row
RECURSIVE DrawColumns(_, _, _, _, _, _)
DrawColumns(r, i, c1, c2, c3, w) ==
  IF i > Max(Len(c1), Max(Len(c2), Len(c3))) THEN r
  ELSE Only({Only({Only({Only({DrawColumns(d3, i + 1, c1, c2, c3, w)
         : d3 \in {DrawCell(d2, c3, i, "column3", Column3X(r, c3, i), cur_y)}})
         : d2 \in {DrawCell(d1, c2, i, "column2", Column2X(r, w, c2, i), cur_y)}})
         : d1 \in {DrawCell(r, c1, i, "column1", PADDING, cur_y)}})
         : cur_y \in {r.y + ((i - 1) * (r.body_font.size + 4))}})

draw_3_columns(r, col1, col2, col3) ==
  Only({Only({Advance(DrawColumns(r, 1, c1, c2, c3, w),
                      Max(Len(c1), Max(Len(c2), Len(c3))) * (r.body_font.size + 4))
              : c1 \in {wrap_text(col1, r.body_font, w.col1)},
                c2 \in {wrap_text(col2, r.body_font, w.col2)},
                c3 \in {wrap_text(col3, r.body_font, w.col3)}})
        : w \in {ColumnWidths(r.target_width - (2 * PADDING))}})

draw_dashed_line(r) ==
  [r EXCEPT !.im = Append(@, Mark("rule", "left", PADDING, r.y,
                                  r.target_width - (2 * PADDING), <<>>))]

\* the size draw_image gives the picture: the content width, then the scale
ImageSize(base_w, img, scale) ==
  Only({IF scale # 100
          THEN [width |-> Max(1, (base_w * scale) \div 100),
                height |-> Max(1, (h_h * scale) \div 100)]
        ELSE [width |-> base_w, height |-> h_h]
        : h_h \in {(img.height * base_w) \div img.width}})

\* draw_image: every exception is caught and logged
draw_image(r, img_path, scale) ==
  IF img_path = NoFile THEN r
  ELSE IF ImageOpenExc(get_real_path(img_path)) # "none" THEN r
  ELSE IF r.target_width - (2 * PADDING) <= 0 THEN r
  ELSE Only({Advance([r EXCEPT !.im = Append(@, Mark("image", "center",
                                                    CenterX(r.target_width, s.width),
                                                    r.y, s.width, <<>>))],
                     s.height + 10)
             : s \in {ImageSize(r.target_width - (2 * PADDING),
                                ImageOpen(get_real_path(img_path)), scale)}})

(***************************************************************************)
(* The texts render draws that come from no configuration: the column      *)
(* titles, the TOTAL label, str() of a float and the f"{total:,.2f}" of    *)
(* the total line (amounts are whole numbers, not negative).               *)
(***************************************************************************)
TextItem == <<"I", "t", "e", "m">>
TextQty == <<"Q", "t", "y">>
TextAmount == <<"A", "m", "o", "u", "n", "t">>
TextTotal == <<"T", "O", "T", "A", "L">>

Digit(n) == <<"0", "1", "2", "3", "4", "5", "6", "7", "8", "9">>[n + 1]

RECURSIVE NatText(_)
NatText(n) == IF n < 10 THEN <<Digit(n)>> ELSE NatText(n \div 10) \o <<Digit(n % 10)>>

\* the "," grouping of the format
RECURSIVE Grouped(_)
Grouped(n) ==
  IF n < 1000 THEN NatText(n)
  ELSE Grouped(n \div 1000)
         \o <<",", Digit((n % 1000) \div 100), Digit((n % 100) \div 10), Digit(n % 10)>>

\* str(float)
FloatText(n) == NatText(n) \o <<".", "0">>

\* f"{total:,.2f}"
TotalText(total) == Grouped(total) \o <<".", "0", "0">>

(***************************************************************************)
(* ReceiptRenderer.render, stage by stage.  Each operator is the code of   *)
(* one stage: its draw call and the cursor moves written around it.        *)
(***************************************************************************)
\* the draw_keyvalue_text loop over the entries of a map
RECURSIVE DrawEntries(_, _)
DrawEntries(r, entries) ==
  IF entries = <<>> THEN r
  ELSE Only({DrawEntries(d, Tail(entries))
             : d \in {draw_keyvalue_text(r, Head(entries).k, Head(entries).v)}})

HeaderImageStage(r) ==
  draw_image(r, r.config.header_image, r.config.header_image_scale)

HeaderTitleStage(r) ==
  Advance(draw_centered_text(r, r.config.header_title, r.title_font), 10 + r.line_spacing)

HeaderDescriptionStage(r) ==
  Advance(draw_centered_text(r, r.config.header_description, r.body_font),
          16 + r.line_spacing)

\* the block runs whatever the map holds
HeaderInfoAlways(r, info) == Advance(DrawEntries(Advance(r, 5), info.header_info), 25)

\* if info.header_info: ...
HeaderInfoStage(r, info) ==
  IF info.header_info # <<>> THEN Advance(DrawEntries(Advance(r, 5), info.header_info), 25)
  ELSE r

ReceiptTitleStage(r) ==
  Advance(draw_centered_text(r, r.config.receipt_title, r.title_font), 5 + r.line_spacing)

FirstRuleStage(r) == Advance(draw_dashed_line(r), r.line_spacing + 4)

ColumnHeaderStage(r) ==
  Advance(draw_3_columns(r, TextItem, TextQty, TextAmount), r.line_spacing)

ItemRowStage(r, item) ==
  Advance(draw_3_columns(r, item.name, FloatText(item.quantity),
                         FloatText(line_total(item))), 4)

SecondRuleStage(r) ==
  Advance(draw_dashed_line(Advance(r, 10 + r.line_spacing)), 4 + r.line_spacing)

TotalLineStage(r, info) ==
  draw_keyvalue_text(r, TextTotal, TotalText(SumLineTotals(info.items)))

\* if info.footer_info: ...
FooterInfoStage(r, info) ==
  IF info.footer_info # <<>>
    THEN Advance(DrawEntries(Advance(draw_dashed_line(Advance(r, r.line_spacing)),
                                     r.line_spacing),
                             info.footer_info), 6)
  ELSE r

FooterLabelStage(r) ==
  Advance(draw_centered_text(Advance(r, 10 + r.line_spacing), r.config.footer_label,
                             r.title_font),
          6 + r.line_spacing)

FooterImageStage(r) ==
  draw_image(r, r.config.footer_image, r.config.footer_image_scale)

\* self.y += BOTTOM_PADDING; final_h = max(40, self.y)
CropStage(r) == Advance(r, BOTTOM_PADDING)

\* self.im.crop((0, 0, self.target_width, final_h))
Bitmap(r) == [width |-> r.target_width, height |-> Max(40, r.y), im |-> r.im]

NoBitmap == [width |-> 0, height |-> 0, im |-> <<>>]

\* the whole of render from the renderer as it stands: the stages in code order
RECURSIVE ItemRows(_, _)
ItemRows(r, items) ==
  IF items = <<>> THEN r
  ELSE IF Len(items) = 1 THEN ItemRowStage(r, items[1])
  ELSE Only({ItemRows(first, SubSeq(items, (Len(items) \div 2) + 1, Len(items)))
             : first \in {ItemRows(r, SubSeq(items, 1, Len(items) \div 2))}})

RenderFrom(r, info) ==
  Only({Only({Only({Only({Only({Only({Only({
    CropStage(FooterImageStage(FooterLabelStage(FooterInfoStage(s7, info))))
    : s7 \in {TotalLineStage(SecondRuleStage(s6), info)}})
    : s6 \in {ItemRows(s5, info.items)}})
    : s5 \in {ColumnHeaderStage(FirstRuleStage(s4))}})
    : s4 \in {ReceiptTitleStage(s3)}})
    : s3 \in {HeaderInfoStage(s2, info)}})
    : s2 \in {HeaderDescriptionStage(s1)}})
    : s1 \in {HeaderTitleStage(HeaderImageStage(r))}})

\* generate_receipt_image(config, info, width): a new renderer, one render
FreshBitmap(config, info, width) ==
  Only({Bitmap(RenderFrom(r, info)) : r \in {ReceiptRenderer(config, width)}})

(***************************************************************************)
(* The layouts and records the renderer is driven with.                    *)
(***************************************************************************)
Rep(c, n) == [i \in 1..n |-> c]

TitleText == <<"W", "i", " ", "W", "i">>
WideWord == Rep("W", 21)
LongText == Rep("W", 12) \o <<" ">> \o Rep("W", 12) \o <<"\n", "i">>

DefaultLayout ==
  [header_image |-> NoFile, header_image_scale |-> 100,
   header_title |-> TitleText, header_description |-> TitleText,
   receipt_title |-> TitleText, footer_label |-> TitleText,
   footer_image |-> NoFile, footer_image_scale |-> 100,
   font_path |-> FontFile, font_size |-> 24, font_size_small |-> 20,
   line_spacing |-> 6]

Layouts ==
  {DefaultLayout,
   [DefaultLayout EXCEPT !.line_spacing = 0],
   [DefaultLayout EXCEPT !.line_spacing = -6],
   [DefaultLayout EXCEPT !.header_image = LogoFile, !.footer_image = LogoFile,
                         !.footer_image_scale = 50],
   [DefaultLayout EXCEPT !.header_image = MissingFile, !.footer_image = CorruptFile],
   [DefaultLayout EXCEPT !.header_title = WideWord, !.footer_label = LongText],
   [DefaultLayout EXCEPT !.font_path = MissingFont],
   [DefaultLayout EXCEPT !.header_image = LogoFile, !.header_image_scale = 150,
                         !.footer_image = LogoFile, !.footer_image_scale = -10]}

Widths == {DefaultWidth, 96}

RenderItem(name, amount, quantity) ==
  [name |-> name, amount |-> amount, quantity |-> quantity]
Record(header_info, footer_info, items) ==
  [header_info |-> header_info, footer_info |-> footer_info, items |-> items]

Fuel == RenderItem(<<"W", "i", "i">>, 2, 3)
Bottle == RenderItem(Rep("W", 16) \o <<" ">> \o Rep("i", 4), 1, 1)
HeaderEntries == <<Entry(<<"N", "o">>, <<"7">>), Entry(<<"I", "d">>, <<>>)>>
FooterEntries == <<Entry(<<"P", "t", "s">>, <<"1", "5", "0">>)>>

Records ==
  {Record(h, f, i) : h \in {<<>>, HeaderEntries}, f \in {<<>>, FooterEntries},
                     i \in {<<Fuel>>, <<Bottle, Fuel>>}}

\* a receipt of many items, as one POST /print may carry
ManyItems == 80
LongRecord == Record(<<>>, <<>>, [k \in 1..ManyItems |-> Fuel])

NoRecord == Record(<<>>, <<>>, <<>>)
NoRenderer ==
  [config |-> DefaultLayout, target_width |-> 0, line_spacing |-> 0,
   title_font |-> Font("none", 0), body_font |-> Font("none", 0), im |-> <<>>, y |-> 0]

MaxRenders == 2

(***************************************************************************)
(* printer/driver.py: ReceiptPrinter._prepare_bitmap.  An image is its     *)
(* width and height; the result adds where the picture sits (x_offset) and *)
(* how large it is (content_width, content_height) inside the bitmap.      *)
(* width * scale_ratio is a float product: for some widths it falls just   *)
(* below pixel_width and int() gives pixel_width - 1; ulp is that loss.    *)
(***************************************************************************)
Picture(width, height) == [width |-> width, height |-> height]

\* scale_ratio = min(1.0, pixel_width / width) and the resize it leads to
Resized(image, pixel_width, ulp) ==
  IF image.width <= pixel_width THEN image
  ELSE Picture(Max(1, pixel_width - ulp),
               Max(1, (image.height * pixel_width) \div image.width))

Prepared(exc, width, height, picture, x_offset) ==
  [exc |-> exc, width |-> width, height |-> height, content_width |-> picture.width,
   content_height |-> picture.height, x_offset |-> x_offset]

\* the picture goes out as it is, whatever its width
Uncentered(picture, pixel_width) ==
  Prepared("none", picture.width, picture.height, picture, 0)

\* if image.width < self.pixel_width: paste on a white canvas of pixel_width
Centered(picture, pixel_width) ==
  IF picture.width < pixel_width
    THEN Prepared("none", pixel_width, picture.height, picture,
                  Max(0, (pixel_width - picture.width) \div 2))
  ELSE Prepared("none", picture.width, picture.height, picture, 0)

_prepare_bitmap(image, pixel_width, ulp) ==
  IF image.width = 0 \/ image.height = 0
    THEN Prepared("RuntimeError", 0, 0, Picture(0, 0), 0)
  ELSE Only({Centered(picture, pixel_width)
             : picture \in {Resized(image, pixel_width, ulp)}})

(***************************************************************************)
(* The entry points.  Each returns what one request leaves behind: arg,    *)
(* the payload object handed to PayloadInfo.from_dict (as it was before    *)
(* the call); norm, the result of that call; image, the rendered receipt;  *)
(* resp, the HTTP status or exit code and the exception that escaped the   *)
(* handler; ops, the printer calls made.                                   *)
(* hw is what the printer hardware does: "ok", or the call that raises     *)
(* RuntimeError.                                                           *)
(***************************************************************************)
HwOutcomes == {"ok", "print", "cut"}

NoPayload == NotAnObject("none")
NoNorm == [exc |-> "uncalled", info |-> NoInfo, payload |-> NoPayload, calls |-> 0]
Resp(status, uncaught) == [status |-> status, uncaught |-> uncaught]
Out(valid, arg, norm, image, resp, ops) ==
  [valid |-> valid, arg |-> arg, norm |-> norm, image |-> image, resp |-> resp, ops |-> ops]
Rejected(valid, resp) == Out(valid, NoPayload, NoNorm, NoImage, resp, <<>>)

\* request.get_json / load_payload, then validate_payload: the exception raised
\* ("none" if the payload came through, "InvalidJSON" for a body that is no JSON)
Validated(payload) ==
  IF payload.t = "invalid" THEN [exc |-> "InvalidJSON", data |-> payload]
  ELSE validate_payload(payload)

\* printer.print_image(img); printer.cut() in try / finally: printer.disconnect()
PrintOps(hw) ==
  IF hw = "print" THEN <<"print_image", "disconnect">>
  ELSE <<"print_image", "cut", "disconnect">>

\* server/app.py print_receipt (POST /print); an exception that escapes the view
\* is answered 500 by Flask
print_receipt(payload, hw) ==
  Only({Only({
    LET img == generate_receipt_image(n.info)
    IN  IF v.exc = "InvalidJSON" THEN Rejected(v.exc, Resp(400, "none"))
        ELSE IF v.exc = "ValueError" THEN Rejected(v.exc, Resp(400, "none"))
        ELSE IF v.exc # "none" THEN Rejected(v.exc, Resp(500, v.exc))
        ELSE IF n.exc # "none" THEN Out("none", v.data, n, NoImage, Resp(500, n.exc), <<>>)
        ELSE IF hw # "ok" THEN Out("none", v.data, n, img, Resp(500, "none"), PrintOps(hw))
        ELSE IF n.payload.total = Absent
          THEN Out("none", v.data, n, img, Resp(500, "KeyError"), PrintOps(hw))
        ELSE Out("none", v.data, n, img, Resp(200, "none"), PrintOps(hw))
    : n \in {IF v.exc = "none" THEN from_dict(v.data) ELSE NoNorm}})
    : v \in {Validated(payload)}})

\* printer_cli.py main with --payload; an exception that escapes main ends the
\* process with a traceback and exit code 1
printer_cli_main(payload, hw) ==
  Only({Only({
    LET img == generate_receipt_image(n.info)
    IN  IF v.exc = "InvalidJSON" THEN Rejected(v.exc, Resp(2, "none"))
        ELSE IF v.exc = "ValueError" THEN Rejected(v.exc, Resp(2, "none"))
        ELSE IF v.exc # "none" THEN Rejected(v.exc, Resp(1, v.exc))
        ELSE IF n.exc # "none" THEN Out("none", v.data, n, NoImage, Resp(1, n.exc), <<>>)
        ELSE IF hw # "ok" THEN Out("none", v.data, n, img, Resp(1, "none"), PrintOps(hw))
        ELSE Out("none", v.data, n, img, Resp(0, "none"), PrintOps(hw))
    : n \in {IF v.exc = "none" THEN from_dict(v.data) ELSE NoNorm}})
    : v \in {Validated(payload)}})

\* ReceiptPrinter.print_image(path): "skipped" for a path that does not exist,
\* "RuntimeError" when the device or Image.open fails, else "printed"
print_image(path, hw) ==
  IF path = NoFile THEN "skipped"
  ELSE IF ~exists(get_real_path(path)) THEN "skipped"
  ELSE IF hw = "print" THEN "RuntimeError"
  ELSE IF ImageOpenExc(get_real_path(path)) # "none" THEN "RuntimeError"
  ELSE "printed"

\* if header_image: printer.print_image(header_image)
ImageCall(path, hw) == IF path = NoFile THEN "uncalled" ELSE print_image(path, hw)

\* the try block of cli.py main raises RuntimeError
TextRaises(layout, hw) ==
  \/ hw # "ok"
  \/ ImageCall(layout.header_image, hw) = "RuntimeError"
  \/ ImageCall(layout.footer_image, hw) = "RuntimeError"

\* the printer calls of cli.py main: print_image of the header image,
\* print_text, print_image of the footer image, feed, cut; disconnect in finally
TextOps(layout, hw) ==
  LET h == ImageCall(layout.header_image, hw)
      f == ImageCall(layout.footer_image, hw)
      Called(c) == IF c = "uncalled" THEN <<>> ELSE <<"print_image">>
  IN  IF h = "RuntimeError" THEN Called(h) \o <<"disconnect">>
      ELSE IF hw = "print" THEN Called(h) \o <<"print_text", "disconnect">>
      ELSE IF f = "RuntimeError"
        THEN Called(h) \o <<"print_text">> \o Called(f) \o <<"disconnect">>
      ELSE Called(h) \o <<"print_text">> \o Called(f) \o <<"feed", "cut", "disconnect">>

\* cli.py main; layout is what build_layout returned
cli_main(payload, hw, layout) ==
  Only({
    LET t == build_receipt_text(v.data)
    IN  IF v.exc = "InvalidJSON" THEN Rejected(v.exc, Resp(2, "none"))
        ELSE IF v.exc = "ValueError" THEN Rejected(v.exc, Resp(2, "none"))
        ELSE IF v.exc # "none" THEN Rejected(v.exc, Resp(1, v.exc))
        ELSE IF t # "none" THEN Rejected("none", Resp(1, t))
        ELSE IF TextRaises(layout, hw)
          THEN Out("none", NoPayload, NoNorm, NoImage, Resp(1, "none"), TextOps(layout, hw))
        ELSE Out("none", NoPayload, NoNorm, NoImage, Resp(0, "none"), TextOps(layout, hw))
    : v \in {Validated(payload)}})

\* PayloadInfo.from_dict called on its own, as ui/main.py calls it
from_dict_call(payload) ==
  Only({Out("uncalled", payload, n, NoImage, Resp(0, n.exc), <<>>)
        : n \in {from_dict(payload)}})

\* ui/main.py UI._generate_preview_image on the module-level payload: every
\* exception is caught and printed
_generate_preview_image(dummy) ==
  Only({IF n.exc # "none" THEN Out("uncalled", dummy, n, NoImage, Resp(0, "none"), <<>>)
        ELSE Out("uncalled", dummy, n, generate_receipt_image(n.info), Resp(0, "none"), <<>>)
        : n \in {from_dict(dummy)}})

\* ui/main.py print_preview: every exception of the print is raised again
print_preview(dummy, hw) ==
  Only({IF n.exc # "none" THEN Out("uncalled", dummy, n, NoImage, Resp(1, n.exc), <<>>)
        ELSE Out("uncalled", dummy, n, generate_receipt_image(n.info),
                 Resp(IF hw = "ok" THEN 0 ELSE 1,
                      IF hw = "ok" THEN "none" ELSE "Exception"),
                 PrintOps(hw))
        : n \in {from_dict(dummy)}})

\* ui/main.py _DUMMY as the module is loaded (amounts in tenths of the unit)
DummyInit ==
  Canonical(
    ItemList(<<ItemOf(Str("Gasoline 95"), Num(405), Num(30)),
               ItemOf(Str("Water Bottle"), Num(100), Num(1))>>),
    Dict(<<Entry("Customer Name", Str("Dummy")), Entry("Customer Code", Str("CT-9904")),
           Entry("Transaction", Str("TXN-TEST-1234")), Entry("Promotion", Str("TestOnProd"))>>),
    Dict(<<Entry("Points", Str("150"))>>),
    Tx("dict", Num(13000), Absent, Absent, Absent, Absent))

(***************************************************************************)
(* State: one request at a time.  pc is "idle" between requests and "done" *)
(* when a handler has returned; entry names the handler, req its payload,  *)
(* valid the exception validate_payload raised; the other variables hold   *)
(* what the handler left behind.                                           *)
(* _DUMMY is the module-level preview payload of ui/main.py, which lives   *)
(* as long as the process.                                                 *)
(***************************************************************************)
VARIABLES pc, entry, req, valid, arg, norm, image, resp, ops, _DUMMY

(***************************************************************************)
(* State of one ReceiptRenderer object: config, the settings in force;     *)
(* renderer, the object (NoRenderer while there is none); owner, who made  *)
(* it, generate_receipt_image or a caller of the class; record, the        *)
(* record of the render call in progress; rpc, the stage render is about   *)
(* to run ("none": no object, "ready": constructed, "returned": render has *)
(* returned); row, the items drawn so far; trace, the stages the call has  *)
(* run; bitmap, what the last render returned; renders, the calls of       *)
(* render the object has served.                                           *)
(***************************************************************************)
VARIABLES config, renderer, owner, record, rpc, row, trace, bitmap, renders

rendererVars == <<config, renderer, owner, record, rpc, row, trace, bitmap, renders>>

(***************************************************************************)
(* prepared is the last call of ReceiptPrinter._prepare_bitmap and wrapped *)
(* the last call of ReceiptRenderer.wrap_text: the arguments, the result,  *)
(* and for wrapped the lines wrap_text returns for each line of the result *)
(* when they are fed back to it.                                           *)
(***************************************************************************)
VARIABLES prepared, wrapped

(***************************************************************************)
(* One ReceiptPrinter object and the handler that made it: printer is the  *)
(* object (its device handle), caller the handler (its name, the host it   *)
(* runs on, where it stands in its try/finally and the exception pending), *)
(* journal the methods of the printer and of the device called so far.     *)
(***************************************************************************)
VARIABLES printer, caller, journal

printerVars == <<printer, caller, journal>>

(***************************************************************************)
(* config.settings: _CONFIG_FILE is the settings file (whether it exists,  *)
(* the tree in it, who wrote it), _DATA the module's tree, lastcall the    *)
(* last call of the module's interface and the exception it raised.        *)
(***************************************************************************)
VARIABLES _CONFIG_FILE, _DATA, lastcall

storeVars == <<_CONFIG_FILE, _DATA, lastcall>>

(***************************************************************************)
(* The configuration window: ui holds _data, the configuration last saved; *)
(* _variables, the value of every field; and the state of the Save and the *)
(* Cancel button.                                                          *)
(***************************************************************************)
VARIABLES ui

(***************************************************************************)
(* Threads calling generate_receipt_image: heap holds the ReceiptRenderer  *)
(* objects by address, threads the local variables of each thread.         *)
(***************************************************************************)
VARIABLES heap, threads

threadVars == <<heap, threads>>

componentVars == <<printerVars, storeVars, ui, threadVars>>

vars ==
  <<pc, entry, req, valid, arg, norm, image, resp, ops, _DUMMY, rendererVars,
    prepared, wrapped, componentVars>>

NotPrepared ==
  [called |-> FALSE, image |-> Picture(0, 0), pixel_width |-> 0,
   result |-> Prepared("none", 0, 0, Picture(0, 0), 0)]
NotWrapped ==
  [called |-> FALSE, text |-> <<>>, max_width |-> 0, lines |-> <<>>,
   fed |-> FALSE, again |-> <<>>]

\* config.settings: PRINTER.pixel_width and the LAYOUT section
Config(pixel_width, layout) ==
  [PRINTER |-> [pixel_width |-> pixel_width], LAYOUT |-> layout]
DefaultConfig == Config(DefaultWidth, DefaultLayout)

NoRendererYet ==
  /\ config = DefaultConfig
  /\ renderer = NoRenderer
  /\ owner = "none"
  /\ record = NoRecord
  /\ rpc = "none"
  /\ row = 0
  /\ trace = <<>>
  /\ bitmap = NoBitmap
  /\ renders = 0

NoRequestYet ==
  /\ pc = "idle"
  /\ entry = "none"
  /\ req = NoPayload
  /\ valid = "uncalled"
  /\ arg = NoPayload
  /\ norm = NoNorm
  /\ image = NoImage
  /\ resp = Resp(0, "none")
  /\ ops = <<>>
  /\ _DUMMY = DummyInit

NoDevice == "None"

NoPrinterYet ==
  /\ printer = [device |-> NoDevice]
  /\ caller = [name |-> "none", host |-> "ok", state |-> "idle", at |-> 0,
               raised |-> "none"]
  /\ journal = <<>>


\* a settings file: whether it exists, the JSON tree in it, and whether this
\* module wrote it ("settings") or somebody else did ("other": an editor, an
\* older version of the program)
File(there, tree, writer) == [exists |-> there, tree |-> tree, writer |-> writer]

\* _DATA = {} (line 42), before the module's closing reload() has run
NotImported ==
  /\ _CONFIG_FILE = File(FALSE, Dict(<<>>), "none")
  /\ _DATA = Dict(<<>>)
  /\ lastcall = [name |-> "none", section |-> "", raised |-> "none"]

\* before UI() is constructed
NoWindow ==
  [built |-> FALSE, _data |-> Dict(<<>>), _variables |-> <<>>, save |-> "disabled",
   cancel |-> "disabled"]

\* the threads of the server and the addresses their renderers may get
Threads == {1, 2}
Addresses == {1, 2}

NotCalling ==
  [at |-> "idle", self |-> 0, layout |-> DefaultLayout, info |-> NoRecord, row |-> 0,
   result |-> NoBitmap, overlapped |-> FALSE]

NoThreads ==
  /\ heap = [a \in Addresses |-> NoRenderer]
  /\ threads = [t \in Threads |-> NotCalling]

Init ==
  /\ NoRequestYet /\ NoRendererYet /\ prepared = NotPrepared /\ wrapped = NotWrapped
  /\ NoPrinterYet /\ NotImported /\ ui = NoWindow /\ NoThreads

Leaves(name, payload, out) ==
  /\ pc' = "done"
  /\ entry' = name
  /\ req' = payload
  /\ valid' = out.valid
  /\ arg' = out.arg
  /\ norm' = out.norm
  /\ image' = out.image
  /\ resp' = out.resp
  /\ ops' = out.ops
  /\ UNCHANGED <<renderer, owner, record, rpc, row, trace, bitmap, renders>>
  /\ UNCHANGED <<prepared, wrapped, componentVars>>

\* the settings a request is served under: the image files and the pixel
\* width are varied on one canonical payload, one legacy payload and the
\* preview payload
PixelWidths == {DefaultWidth, 576}
ImageFiles == {NoFile, LogoFile, MissingFile, CorruptFile}
Configs ==
  {Config(w, [DefaultLayout EXCEPT !.header_image = h, !.footer_image = f])
     : w \in PixelWidths, h \in ImageFiles, f \in ImageFiles}
ConfiguredPayloads == {Base, [LegacyBase EXCEPT !.total = Num(1)], DummyInit}
RequestConfigs(payload) ==
  IF payload \in ConfiguredPayloads THEN Configs ELSE {DefaultConfig}

PostPrint ==
  /\ pc = "idle"
  /\ \E payload \in Payloads, hw \in HwOutcomes :
       /\ \E out \in {print_receipt(payload, hw)} : Leaves("print_receipt", payload, out)
       /\ config' \in RequestConfigs(payload)
  /\ UNCHANGED _DUMMY

PrinterCli ==
  /\ pc = "idle"
  /\ \E payload \in Payloads, hw \in HwOutcomes :
       /\ \E out \in {printer_cli_main(payload, hw)} : Leaves("printer_cli", payload, out)
       /\ config' \in RequestConfigs(payload)
  /\ UNCHANGED _DUMMY

Cli ==
  /\ pc = "idle"
  /\ \E payload \in Payloads, hw \in HwOutcomes :
       \E cfg \in RequestConfigs(payload) :
         /\ \E out \in {cli_main(payload, hw, cfg.LAYOUT)} : Leaves("cli", payload, out)
         /\ config' = cfg
  /\ UNCHANGED _DUMMY

FromDict ==
  /\ pc = "idle"
  /\ \E payload \in {p \in Payloads : p.t = "dict"} :
       \E out \in {from_dict_call(payload)} : Leaves("from_dict", payload, out)
  /\ UNCHANGED <<_DUMMY, config>>

Preview ==
  /\ pc = "idle"
  /\ \E out \in {_generate_preview_image(_DUMMY)} :
       /\ Leaves("preview", _DUMMY, out)
       /\ _DUMMY' = out.norm.payload
  /\ UNCHANGED config

PrintPreview ==
  /\ pc = "idle"
  /\ \E hw \in HwOutcomes :
       \E out \in {print_preview(_DUMMY, hw)} :
         /\ Leaves("print_preview", _DUMMY, out)
         /\ _DUMMY' = out.norm.payload
  /\ config' \in RequestConfigs(_DUMMY)

\* the handler has returned; the process waits for the next request
Return ==
  /\ pc = "done"
  /\ pc' = "idle"
  /\ entry' = "none"
  /\ req' = NoPayload
  /\ valid' = "uncalled"
  /\ arg' = NoPayload
  /\ norm' = NoNorm
  /\ image' = NoImage
  /\ resp' = Resp(0, "none")
  /\ ops' = <<>>
  /\ config' = DefaultConfig
  /\ UNCHANGED <<_DUMMY, renderer, owner, record, rpc, row, trace, bitmap, renders>>
  /\ UNCHANGED <<prepared, wrapped, componentVars>>

Next == PostPrint \/ PrinterCli \/ Cli \/ FromDict \/ Preview \/ PrintPreview \/ Return

Spec == Init /\ [][Next]_vars

(***************************************************************************)
(* One ReceiptRenderer object from construction to disposal.  The object   *)
(* is made by generate_receipt_image, which renders once and drops it, or  *)
(* by a caller of the class, who may call render again.  Each stage of     *)
(* render is one step.                                                     *)
(***************************************************************************)
requestVars ==
  <<pc, entry, req, valid, arg, norm, image, resp, ops, _DUMMY, prepared, wrapped,
    componentVars>>

Stage(name, item) == [stage |-> name, item |-> item]

\* the call render(info) begins
Begins(info) ==
  /\ record' = info
  /\ rpc' = "header_image"
  /\ row' = 0
  /\ trace' = <<>>
  /\ renders' = renders + 1

\* generate_receipt_image(config, info): width is left at its default
GenerateReceiptImage ==
  /\ rpc = "none"
  /\ \E layout \in Layouts, info \in Records \cup {LongRecord} :
       /\ config' = Config(DefaultWidth, layout)
       /\ renderer' = ReceiptRenderer(layout, DefaultWidth)
       /\ Begins(info)
  /\ owner' = "generate_receipt_image"
  /\ UNCHANGED <<bitmap, requestVars>>

\* ReceiptRenderer(config, width)
Construct ==
  /\ rpc = "none"
  /\ \E layout \in Layouts, width \in Widths :
       /\ config' = Config(width, layout)
       /\ renderer' = ReceiptRenderer(layout, width)
  /\ rpc' = "ready"
  /\ owner' = "caller"
  /\ UNCHANGED <<record, row, trace, bitmap, renders, requestVars>>

\* renderer.render(info) on an object that is kept
Render ==
  /\ rpc \in {"ready", "returned"}
  /\ owner = "caller"
  /\ renders < MaxRenders
  /\ \E info \in Records : Begins(info)
  /\ UNCHANGED <<config, renderer, owner, bitmap, requestVars>>

\* one stage has run: the renderer it leaves and the stage that follows
Ran(name, item, r, next) ==
  /\ renderer' = r
  /\ trace' = Append(trace, Stage(name, item))
  /\ rpc' = next
  /\ UNCHANGED <<config, owner, record, bitmap, renders, requestVars>>

HeaderImage ==
  /\ rpc = "header_image"
  /\ \E r \in {HeaderImageStage(renderer)} : Ran("header_image", 0, r, "header_title")
  /\ UNCHANGED row

HeaderTitle ==
  /\ rpc = "header_title"
  /\ \E r \in {HeaderTitleStage(renderer)} :
       Ran("header_title", 0, r, "header_description")
  /\ UNCHANGED row

HeaderDescription ==
  /\ rpc = "header_description"
  /\ \E r \in {HeaderDescriptionStage(renderer)} :
       Ran("header_description", 0, r, "header_info")
  /\ UNCHANGED row

HeaderInfo ==
  /\ rpc = "header_info"
  /\ \E r \in {HeaderInfoStage(renderer, record)} :
       Ran("header_info", 0, r, "receipt_title")
  /\ UNCHANGED row

ReceiptTitle ==
  /\ rpc = "receipt_title"
  /\ \E r \in {ReceiptTitleStage(renderer)} : Ran("receipt_title", 0, r, "first_rule")
  /\ UNCHANGED row

FirstRule ==
  /\ rpc = "first_rule"
  /\ \E r \in {FirstRuleStage(renderer)} : Ran("first_rule", 0, r, "column_header")
  /\ UNCHANGED row

ColumnHeader ==
  /\ rpc = "column_header"
  /\ \E r \in {ColumnHeaderStage(renderer)} :
       Ran("column_header", 0, r, IF record.items = <<>> THEN "second_rule" ELSE "item_row")
  /\ UNCHANGED row

\* one turn of the loop over info.items
ItemRow ==
  /\ rpc = "item_row"
  /\ \E r \in {ItemRowStage(renderer, record.items[row + 1])} :
       Ran("item_row", row + 1, r,
           IF row + 1 = Len(record.items) THEN "second_rule" ELSE "item_row")
  /\ row' = row + 1

SecondRule ==
  /\ rpc = "second_rule"
  /\ \E r \in {SecondRuleStage(renderer)} : Ran("second_rule", 0, r, "total_line")
  /\ UNCHANGED row

TotalLine ==
  /\ rpc = "total_line"
  /\ \E r \in {TotalLineStage(renderer, record)} : Ran("total_line", 0, r, "footer_info")
  /\ UNCHANGED row

FooterInfo ==
  /\ rpc = "footer_info"
  /\ \E r \in {FooterInfoStage(renderer, record)} :
       Ran("footer_info", 0, r, "footer_label")
  /\ UNCHANGED row

FooterLabel ==
  /\ rpc = "footer_label"
  /\ \E r \in {FooterLabelStage(renderer)} : Ran("footer_label", 0, r, "footer_image")
  /\ UNCHANGED row

FooterImage ==
  /\ rpc = "footer_image"
  /\ \E r \in {FooterImageStage(renderer)} : Ran("footer_image", 0, r, "crop")
  /\ UNCHANGED row

\* the crop: render returns; the object of generate_receipt_image is local
Crop ==
  /\ rpc = "crop"
  /\ \E r \in {CropStage(renderer)} :
       /\ renderer' = r
       /\ bitmap' = Bitmap(r)
  /\ trace' = Append(trace, Stage("crop", 0))
  /\ rpc' = "returned"
  /\ UNCHANGED <<config, owner, record, row, renders, requestVars>>

\* the object is dropped
Dispose ==
  /\ rpc = "returned"
  /\ owner' = "none"
  /\ config' = DefaultConfig
  /\ renderer' = NoRenderer
  /\ record' = NoRecord
  /\ rpc' = "none"
  /\ row' = 0
  /\ trace' = <<>>
  /\ bitmap' = NoBitmap
  /\ renders' = 0
  /\ UNCHANGED requestVars

RenderNext ==
  \/ GenerateReceiptImage \/ Construct \/ Render
  \/ HeaderImage \/ HeaderTitle \/ HeaderDescription \/ HeaderInfo \/ ReceiptTitle
  \/ FirstRule \/ ColumnHeader \/ ItemRow \/ SecondRule \/ TotalLine \/ FooterInfo
  \/ FooterLabel \/ FooterImage \/ Crop \/ Dispose

RenderSpec == Init /\ [][RenderNext]_vars

(***************************************************************************)
(* ReceiptPrinter._prepare_bitmap called on images of every size up to     *)
(* MaxSide, zero sizes included, for every pixel_width up to MaxSide.      *)
(***************************************************************************)
MaxSide == 5

PrepareBitmap ==
  /\ ~prepared.called
  /\ \E w \in 0..MaxSide, h \in 0..MaxSide, pixel_width \in 1..MaxSide, ulp \in {0, 1} :
       \E b \in {_prepare_bitmap(Picture(w, h), pixel_width, ulp)} :
         prepared' = [called |-> TRUE, image |-> Picture(w, h),
                      pixel_width |-> pixel_width, result |-> b]
  /\ UNCHANGED <<pc, entry, req, valid, arg, norm, image, resp, ops, _DUMMY,
                 rendererVars, wrapped, componentVars>>

\* the caller is done with the bitmap
BitmapSent ==
  /\ prepared.called
  /\ prepared' = NotPrepared
  /\ UNCHANGED <<pc, entry, req, valid, arg, norm, image, resp, ops, _DUMMY,
                 rendererVars, wrapped, componentVars>>

BitmapNext == PrepareBitmap \/ BitmapSent

BitmapSpec == Init /\ [][BitmapNext]_vars

(***************************************************************************)
(* ReceiptRenderer.wrap_text called on every text of up to MaxTextLen      *)
(* characters (wide and narrow letters, spaces, newlines) in a font of     *)
(* size WrapFontSize, for every max_width up to MaxWrapWidth; then each    *)
(* line of the result is wrapped again on its own.                         *)
(***************************************************************************)
MaxTextLen == 4
MaxWrapWidth == 9
WrapFontSize == 4

WrapFont == Font("truetype", WrapFontSize)
Characters == {"W", "i", " ", "\n"}
Texts == UNION {[1..n -> Characters] : n \in 0..MaxTextLen}

WrapText ==
  /\ ~wrapped.called
  /\ \E text \in Texts, max_width \in {0, 4, MaxWrapWidth} :
       \E lines \in {wrap_text(text, WrapFont, max_width)} :
         wrapped' = [called |-> TRUE, text |-> text, max_width |-> max_width,
                     lines |-> lines, fed |-> FALSE, again |-> <<>>]
  /\ UNCHANGED <<pc, entry, req, valid, arg, norm, image, resp, ops, _DUMMY,
                 rendererVars, prepared, componentVars>>

\* each line of the result goes through wrap_text on its own
WrapLines ==
  /\ wrapped.called /\ ~wrapped.fed
  /\ wrapped' =
       [wrapped EXCEPT !.fed = TRUE,
                       !.again = [i \in 1..Len(wrapped.lines) |->
                                    wrap_text(wrapped.lines[i], WrapFont,
                                              wrapped.max_width)]]
  /\ UNCHANGED <<pc, entry, req, valid, arg, norm, image, resp, ops, _DUMMY,
                 rendererVars, prepared, componentVars>>

WrapNext == WrapText \/ WrapLines

WrapSpec == Init /\ [][WrapNext]_vars

(***************************************************************************)
(* The life of a printer connection.  A handler makes a ReceiptPrinter,    *)
(* calls its methods inside try and disconnect() inside finally.  Each     *)
(* method of the driver is one step.  The host decides whether connect()   *)
(* can open the printer queue; the device decides how each of its methods  *)
(* ends.  journal lists the driver's methods by name and the device's with *)
(* the prefix "device.", "Win32Raw" being the opening of a handle.         *)
(***************************************************************************)
Hosts == {"ok", "no_escpos", "no_win32", "offline"}

Did(device, raised, events) == [device |-> device, raised |-> raised, events |-> events]

\* connect() without its first test: opens a handle whatever self.device is
ConnectAlways(device, host) ==
  IF host = "ok" THEN Did("Win32Raw", "none", <<"Win32Raw">>)
  ELSE Did(device, "RuntimeError", <<>>)

\* ReceiptPrinter.connect
connect(device, host) ==
  IF device # NoDevice THEN Did(device, "none", <<>>)
  ELSE IF host = "no_escpos" THEN Did(device, "RuntimeError", <<>>)
  ELSE IF host = "no_win32" THEN Did(device, "RuntimeError", <<>>)
  ELSE IF host = "offline" THEN Did(device, "RuntimeError", <<>>)
  ELSE Did("Win32Raw", "none", <<"Win32Raw">>)

\* a method that connects and then calls the device: the device's method
\* returns ("ok"), lacks the method and the fallback is used ("fallback"),
\* or raises ("raise", turned into reraised where the driver catches it)
OnDevice(device, host, out, method, fallback, reraised) ==
  Only({IF c.raised # "none" THEN c
        ELSE IF out = "raise" THEN Did(c.device, reraised, c.events \o <<method>>)
        ELSE IF out = "fallback" THEN Did(c.device, "none", c.events \o <<method, fallback>>)
        ELSE Did(c.device, "none", c.events \o <<method>>)
        : c \in {connect(device, host)}})

\* ReceiptPrinter.print_image: "skip" is the image that names no file
image_to_device(device, host, out) ==
  IF out = "skip" THEN Did(device, "none", <<>>)
  ELSE OnDevice(device, host, out, "device.image", "device.image", "RuntimeError")

\* ReceiptPrinter.cut
cut(device, host, out) ==
  OnDevice(device, host, out, "device.cut", "device.control", "Exception")

\* ReceiptPrinter.kick_drawer with the default pin
kick_drawer(device, host, out) ==
  OnDevice(device, host, out, "device.cashdraw", "device.text", "Exception")

\* ReceiptPrinter.disconnect: close returns ("ok"), raises ("raise") or the
\* device has no close ("fallback")
disconnect(device, out) ==
  IF device = NoDevice THEN Did(NoDevice, "none", <<>>)
  ELSE IF out = "fallback" THEN Did(NoDevice, "none", <<>>)
  ELSE IF out = "raise" THEN Did(NoDevice, "none", <<"device.close raises">>)
  ELSE Did(NoDevice, "none", <<"device.close">>)

\* the try blocks of the handlers and the exceptions their except clauses name
Handlers == {"print_receipt", "open_drawer", "printer_cli", "drawer_cli"}
TryBody(name) ==
  IF name \in {"print_receipt", "printer_cli"} THEN <<"print_image", "cut">>
  ELSE <<"kick_drawer">>
Catches(name) == IF name = "drawer_cli" THEN "ValueError" ELSE "RuntimeError"

\* ReceiptPrinter(printer_cfg), the statement before try (inside it in open_drawer)
CreatePrinter ==
  /\ caller.state \in {"idle", "returned"}
  /\ \E name \in Handlers, host \in Hosts :
       caller' = [name |-> name, host |-> host, state |-> "try", at |-> 1,
                  raised |-> "none"]
  /\ printer' = [device |-> NoDevice]
  /\ journal' = <<>>
  /\ UNCHANGED <<pc, entry, req, valid, arg, norm, image, resp, ops, _DUMMY,
                 rendererVars, prepared, wrapped, storeVars, ui, threadVars>>

\* one statement of the try block has run with result r
InTry(method, r) ==
  /\ printer' = [device |-> r.device]
  /\ journal' = journal \o <<method>> \o r.events
  /\ caller' =
       IF r.raised # "none"
         THEN [caller EXCEPT !.state = "finally", !.raised = r.raised]
       ELSE IF caller.at = Len(TryBody(caller.name))
         THEN [caller EXCEPT !.state = "finally"]
       ELSE [caller EXCEPT !.at = @ + 1]
  /\ UNCHANGED <<pc, entry, req, valid, arg, norm, image, resp, ops, _DUMMY,
                 rendererVars, prepared, wrapped, storeVars, ui, threadVars>>

Next_statement(method) ==
  caller.state = "try" /\ TryBody(caller.name)[caller.at] = method

PrintImage ==
  /\ Next_statement("print_image")
  /\ \E out \in {"skip", "ok", "raise"} :
       \E r \in {image_to_device(printer.device, caller.host, out)} :
         InTry("print_image", r)

Cut ==
  /\ Next_statement("cut")
  /\ \E out \in {"ok", "fallback", "raise"} :
       \E r \in {cut(printer.device, caller.host, out)} : InTry("cut", r)

KickDrawer ==
  /\ Next_statement("kick_drawer")
  /\ \E out \in {"ok", "fallback", "raise"} :
       \E r \in {kick_drawer(printer.device, caller.host, out)} : InTry("kick_drawer", r)

\* the finally clause, then the handler returns: "caught" when its except
\* clause took the exception, "uncaught" when the exception goes on to the
\* handler's own caller
Disconnect ==
  /\ caller.state = "finally"
  /\ \E out \in {"ok", "fallback", "raise"} :
       \E r \in {disconnect(printer.device, out)} :
         /\ printer' = [device |-> r.device]
         /\ journal' = journal \o <<"disconnect">> \o r.events
  /\ caller' = [caller EXCEPT !.state = "returned",
                              !.raised = IF @ = "none" THEN "none"
                                         ELSE IF @ = Catches(caller.name) THEN "caught"
                                         ELSE "uncaught"]
  /\ UNCHANGED <<pc, entry, req, valid, arg, norm, image, resp, ops, _DUMMY,
                 rendererVars, prepared, wrapped, storeVars, ui, threadVars>>

PrinterNext == CreatePrinter \/ PrintImage \/ Cut \/ KickDrawer \/ Disconnect

PrinterSpec == Init /\ [][PrinterNext]_vars


(***************************************************************************)
(* config/settings.py: the settings store.  A tree is a dict of sections,  *)
(* a section a dict of keys.  _DEFAULTS is cut down to one or two keys of  *)
(* each type per section.  json.dump followed by json.load gives back the  *)
(* same tree for the strings, integers and booleans the trees hold, so the *)
(* file is modelled by the tree written to it.                             *)
(***************************************************************************)
Bool(b) == [t |-> "bool", n |-> IF b THEN 1 ELSE 0, s |-> ""]

_DEFAULTS ==
  Dict(<<Entry("PRINTER", Dict(<<Entry("usb_port", Str("USB001")),
                                 Entry("line_width", Num(44))>>)),
         Entry("LAYOUT", Dict(<<Entry("line_spacing", Num(6))>>)),
         Entry("SERVICE", Dict(<<Entry("debug", Bool(TRUE))>>))>>)

\* dict.update(incoming) on the entries of a dict
RECURSIVE update(_, _)
update(d, incoming) ==
  IF incoming = <<>> THEN d
  ELSE update(DictSet(d, Head(incoming).k, Head(incoming).v), Tail(incoming))

\* raw.get(section)
SectionGet(raw, section) == IF HasKey(raw.d, section) THEN Lookup(raw.d, section) ELSE None

\* the tree as it was given: no default is filled in, no section dropped
AsGiven(raw) == raw

_merge_with_defaults(raw) ==
  Dict([i \in 1..Len(_DEFAULTS.d) |->
          Only({Entry(_DEFAULTS.d[i].k,
                      IF incoming.t = "dict"
                        THEN Dict(update(_DEFAULTS.d[i].v.d, incoming.d))
                        ELSE _DEFAULTS.d[i].v)
                : incoming \in {SectionGet(raw, _DEFAULTS.d[i].k)}})])

_write_config(data) == File(TRUE, data, "settings")

_ensure_config_file(file) == IF file.exists THEN file ELSE _write_config(_DEFAULTS)

\* what a call of the store leaves: the file, _DATA, the exception raised
Stored(file, data, raised) == [file |-> file, data |-> data, raised |-> raised]

\* reload(): _load_config, then _refresh_globals
reload(file) ==
  Only({Stored(f, _merge_with_defaults(f.tree), "none") : f \in {_ensure_config_file(file)}})

\* save_all(data)
save_all(data) ==
  Only({Stored(_write_config(merged), merged, "none") : merged \in {_merge_with_defaults(data)}})

\* update_section(section, values) on the tree get_all() returns
update_section(file, current, section, values) ==
  IF ~HasKey(current.d, section) THEN Stored(file, current, "KeyError")
  ELSE save_all(Dict(DictSet(current.d, section,
                             Dict(update(Lookup(current.d, section).d, values)))))

\* the files the program may find when it starts: none, one it wrote itself,
\* one that lacks sections and keys, one with a section that is no dict, an
\* unknown section and an unknown key
PartialTree == Dict(<<Entry("PRINTER", Dict(<<Entry("usb_port", Str("USB002"))>>))>>)
OddTree ==
  Dict(<<Entry("PRINTER", Num(5)), Entry("EXTRA", Dict(<<>>)),
         Entry("LAYOUT", Dict(<<Entry("theme", Str("dark"))>>))>>)
FilesFound ==
  {File(FALSE, Dict(<<>>), "none"), File(TRUE, _DEFAULTS, "settings"),
   File(TRUE, PartialTree, "other"), File(TRUE, OddTree, "other")}
TreesSaved == {_DEFAULTS, PartialTree, OddTree, Dict(<<>>)}
SectionNames == {"PRINTER", "SERVICE", "EXTRA"}
ValuesGiven ==
  {<<>>, <<Entry("usb_port", Str("USB002"))>>, <<Entry("debug", Bool(FALSE))>>,
   <<Entry("note", Str("x"))>>}

Imported == lastcall.name # "none"

StoreCall(name, section, out) ==
  /\ _CONFIG_FILE' = out.file
  /\ _DATA' = out.data
  /\ lastcall' = [name |-> name, section |-> section, raised |-> out.raised]

\* the module is imported: its last statement is reload()
Import ==
  /\ ~Imported
  /\ \E found \in FilesFound : \E out \in {reload(found)} : StoreCall("import", "", out)
  /\ UNCHANGED <<pc, entry, req, valid, arg, norm, image, resp, ops, _DUMMY,
                 rendererVars, prepared, wrapped, printerVars, ui, threadVars>>

Reload ==
  /\ Imported
  /\ \E out \in {reload(_CONFIG_FILE)} : StoreCall("reload", "", out)
  /\ UNCHANGED <<pc, entry, req, valid, arg, norm, image, resp, ops, _DUMMY,
                 rendererVars, prepared, wrapped, printerVars, ui, threadVars>>

SaveAll ==
  /\ Imported
  /\ \E data \in TreesSaved : \E out \in {save_all(data)} : StoreCall("save_all", "", out)
  /\ UNCHANGED <<pc, entry, req, valid, arg, norm, image, resp, ops, _DUMMY,
                 rendererVars, prepared, wrapped, printerVars, ui, threadVars>>

UpdateSection ==
  /\ Imported
  /\ \E section \in SectionNames, values \in ValuesGiven :
       \E out \in {update_section(_CONFIG_FILE, _DATA, section, values)} :
         StoreCall("update_section", section, out)
  /\ UNCHANGED <<pc, entry, req, valid, arg, norm, image, resp, ops, _DUMMY,
                 rendererVars, prepared, wrapped, printerVars, ui, threadVars>>

StoreNext == Import \/ Reload \/ SaveAll \/ UpdateSection

StoreSpec == Init /\ [][StoreNext]_vars


(***************************************************************************)
(* ui/main.py: the configuration window.  FIELD_SPECS is cut down to one   *)
(* field of each kind per section: text, integer and boolean fields, the   *)
(* spacer (" "), the heading ("-") and the button, which is a field whose  *)
(* type is callable.  A tk variable holds a string, a BooleanVar a bool.   *)
(***************************************************************************)
Field(section, key, type) == [section |-> section, key |-> key, type |-> type]

FIELD_SPECS ==
  <<Field("PRINTER", "usb_port", "str"),
    Field("PRINTER", "line_width", "int"),
    Field("PRINTER", " ", "None"),
    Field("PRINTER", "open_driver_downloads_page", "callable"),
    Field("LAYOUT", "header_image_scale", "int"),
    Field("LAYOUT", "-", "None"),
    Field("LAYOUT", "line_spacing", "int"),
    Field("SERVICE", " ", "None"),
    Field("SERVICE", "debug", "bool")>>

Fields == 1..Len(FIELD_SPECS)

\* str(value)
str(value) ==
  CASE value.t = "str" -> value
    [] value.t = "num" -> Str(ToString(value.n))
    [] value.t = "bool" -> Str(IF value.n = 1 THEN "True" ELSE "False")
    [] OTHER -> Str("None")

\* int(value): the texts Python reads as integers; the others raise ValueError
IntTexts == {"0", "6", "8", "32", "44", "50"}
IntOfText(s) ==
  CASE s = "0" -> 0 [] s = "6" -> 6 [] s = "8" -> 8 [] s = "32" -> 32 [] s = "44" -> 44
    [] OTHER -> 50
IntExc(value) ==
  CASE value.t \in {"num", "bool"} -> "none"
    [] value.t = "str" -> IF value.s \in IntTexts THEN "none" ELSE "ValueError"
    [] OTHER -> "TypeError"
int(value) == IF value.t = "str" THEN Num(IntOfText(value.s)) ELSE Num(value.n)

\* bool(value)
bool(value) ==
  CASE value.t = "str" -> Bool(value.s # "")
    [] value.t \in {"num", "bool"} -> Bool(value.n # 0)
    [] OTHER -> Bool(FALSE)

_get_typed_value(value, field_type) ==
  IF field_type = "bool" THEN bool(value)
  ELSE IF field_type = "int" THEN (IF IntExc(value) = "none" THEN int(value) ELSE Num(0))
  ELSE str(value)

\* config.get(section, {}).get(key, default)
ConfigGet(tree, section, key, default) ==
  IF ~HasKey(tree.d, section) THEN default
  ELSE Only({IF values.t = "dict" /\ HasKey(values.d, key) THEN Lookup(values.d, key)
             ELSE default : values \in {Lookup(tree.d, section)}})

\* what a field's variable holds for a value: a BooleanVar bool(value), a
\* StringVar str(value); the heading's variable stays empty
VarOf(f, value) ==
  IF f.key = "-" THEN Str("")
  ELSE IF f.type = "bool" THEN bool(value)
  ELSE str(value)

_init_variables(data) ==
  [i \in Fields |-> VarOf(FIELD_SPECS[i], ConfigGet(data, FIELD_SPECS[i].section,
                                                    FIELD_SPECS[i].key, Str("")))]

\* _check_dirty: the state it gives to both buttons
is_dirty(variables, data) ==
  \E i \in Fields :
    /\ FIELD_SPECS[i].key # "-"
    /\ _get_typed_value(variables[i], FIELD_SPECS[i].type)
         # _get_typed_value(ConfigGet(data, FIELD_SPECS[i].section, FIELD_SPECS[i].key,
                                      None), FIELD_SPECS[i].type)

_check_dirty(variables, data) == IF is_dirty(variables, data) THEN "enabled" ELSE "disabled"

\* _get_current_ui_config
SectionsOfFields == <<"PRINTER", "LAYOUT", "SERVICE">>
IsOfSection(section) == [i \in Fields |-> FIELD_SPECS[i].section = section
                                          /\ FIELD_SPECS[i].key # "-"]
RECURSIVE Collect(_, _, _)
Collect(variables, section, i) ==
  IF i > Len(FIELD_SPECS) THEN <<>>
  ELSE IF IsOfSection(section)[i]
    THEN <<Entry(FIELD_SPECS[i].key, _get_typed_value(variables[i], FIELD_SPECS[i].type))>>
         \o Collect(variables, section, i + 1)
  ELSE Collect(variables, section, i + 1)
_get_current_ui_config(variables) ==
  Dict([s \in 1..Len(SectionsOfFields) |->
          Entry(SectionsOfFields[s], Dict(Collect(variables, SectionsOfFields[s], 1)))])

\* the window after its variables were written: every write runs _check_dirty
Traced(window, variables, data) ==
  Only({[window EXCEPT !._variables = variables, !._data = data, !.save = state,
                        !.cancel = state] : state \in {_check_dirty(variables, data)}})

\* _set_config(config), tree being config: a value of None is shown as the empty text
_set_config(window, tree) ==
  Traced(window,
          [i \in Fields |->
             Only({VarOf(FIELD_SPECS[i], IF val = None THEN Str("") ELSE val)
                   : val \in {ConfigGet(tree, FIELD_SPECS[i].section,
                                        FIELD_SPECS[i].key, Str(""))}})],
          window._data)

\* what the user may type into a field or pick for it
Typed(f) ==
  CASE f.key = "usb_port" -> {Str("USB001"), Str("USB002")}
    [] f.key = "line_width" -> {Str("44"), Str("32"), Str("")}
    [] f.key = "header_image_scale" -> {Str(""), Str("0"), Str("50")}
    [] f.key = "line_spacing" -> {Str("6"), Str("8")}
    [] f.key = "debug" -> {Bool(TRUE), Bool(FALSE)}
    [] OTHER -> {}

UILeaves ==
  UNCHANGED <<pc, entry, req, valid, arg, norm, image, resp, ops, _DUMMY,
              rendererVars, prepared, wrapped, printerVars, threadVars>>

\* UI(): _data = settings.get_all(), _init_variables(), _build()
OpenWindow ==
  /\ Imported /\ ~ui.built
  /\ ui' = [built |-> TRUE, _data |-> _DATA, _variables |-> _init_variables(_DATA),
            save |-> "disabled", cancel |-> "disabled"]
  /\ UNCHANGED storeVars
  /\ UILeaves

\* the user changes one field: the variable is written, its trace runs
EditField ==
  /\ ui.built
  /\ \E i \in Fields : \E value \in Typed(FIELD_SPECS[i]) :
       /\ value # ui._variables[i]
       /\ ui' = Traced(ui, [ui._variables EXCEPT ![i] = value], ui._data)
  /\ UNCHANGED storeVars
  /\ UILeaves

\* the Save button: _save
Save ==
  /\ ui.built /\ ui.save = "enabled"
  /\ \E updated \in {_get_current_ui_config(ui._variables)} :
       /\ \E out \in {save_all(updated)} : StoreCall("save_all", "", out)
       /\ ui' = Traced(ui, ui._variables, updated)
  /\ UILeaves

\* the Cancel button: _revert_changes
Cancel ==
  /\ ui.built /\ ui.cancel = "enabled"
  /\ ui' = _set_config(ui, ui._data)
  /\ UNCHANGED storeVars
  /\ UILeaves

\* the Reset Default button, confirmed: _reset_defaults
ResetDefaults ==
  /\ ui.built
  /\ ui' = _set_config(ui, _DEFAULTS)
  /\ UNCHANGED storeVars
  /\ UILeaves

UINext == Import \/ OpenWindow \/ EditField \/ Save \/ Cancel \/ ResetDefaults

UISpec == Init /\ [][UINext]_vars


(***************************************************************************)
(* generate_receipt_image called from two threads at once.  Every call     *)
(* constructs its own ReceiptRenderer, which the heap holds at an address  *)
(* of its own until the call returns and the last reference is gone; a     *)
(* thread runs one stage of render per step, in any interleaving with the  *)
(* other thread.  overlapped records that the other thread ran a stage     *)
(* while this call was in progress.                                        *)
(***************************************************************************)
ThreadLayouts ==
  {DefaultLayout,
   [DefaultLayout EXCEPT !.header_image = LogoFile, !.footer_image = LogoFile,
                         !.footer_image_scale = 50]}
ThreadRecords ==
  {Record(<<>>, <<>>, <<Fuel>>), Record(HeaderEntries, FooterEntries, <<Bottle, Fuel>>)}

InCall(th) == th.at \notin {"idle", "returned"}

\* the addresses that hold an object some call still refers to
Live(ts) == {ts[t].self : t \in {u \in Threads : InCall(ts[u])}}

\* one renderer kept for all calls
SameRenderer(live) == 1

\* ReceiptRenderer(config, width) allocates a new object
NewRenderer(live) == CHOOSE a \in Addresses : a \notin live

\* the stage of render at a position, run on the renderer r
RunStage(at, r, info, n) ==
  CASE at = "header_image" -> HeaderImageStage(r)
    [] at = "header_title" -> HeaderTitleStage(r)
    [] at = "header_description" -> HeaderDescriptionStage(r)
    [] at = "header_info" -> HeaderInfoStage(r, info)
    [] at = "receipt_title" -> ReceiptTitleStage(r)
    [] at = "first_rule" -> FirstRuleStage(r)
    [] at = "column_header" -> ColumnHeaderStage(r)
    [] at = "item_row" -> ItemRowStage(r, info.items[n + 1])
    [] at = "second_rule" -> SecondRuleStage(r)
    [] at = "total_line" -> TotalLineStage(r, info)
    [] at = "footer_info" -> FooterInfoStage(r, info)
    [] at = "footer_label" -> FooterLabelStage(r)
    [] at = "footer_image" -> FooterImageStage(r)
    [] OTHER -> CropStage(r)

\* the position after a stage
FollowingStage(at, info, n) ==
  CASE at = "header_image" -> "header_title"
    [] at = "header_title" -> "header_description"
    [] at = "header_description" -> "header_info"
    [] at = "header_info" -> "receipt_title"
    [] at = "receipt_title" -> "first_rule"
    [] at = "first_rule" -> "column_header"
    [] at = "column_header" -> IF info.items = <<>> THEN "second_rule" ELSE "item_row"
    [] at = "item_row" -> IF n + 1 = Len(info.items) THEN "second_rule" ELSE "item_row"
    [] at = "second_rule" -> "total_line"
    [] at = "total_line" -> "footer_info"
    [] at = "footer_info" -> "footer_label"
    [] at = "footer_label" -> "footer_image"
    [] at = "footer_image" -> "crop"
    [] OTHER -> "returned"

ThreadLeaves ==
  UNCHANGED <<pc, entry, req, valid, arg, norm, image, resp, ops, _DUMMY,
              rendererVars, prepared, wrapped, printerVars, storeVars, ui>>

\* thread t has run a step: it and the calls in progress beside it overlap
Overlap(ts, t) ==
  IF \E u \in Threads \ {t} : InCall(ts[u])
    THEN [u \in Threads |-> IF u = t \/ InCall(ts[u])
                              THEN [ts[u] EXCEPT !.overlapped = TRUE] ELSE ts[u]]
  ELSE ts

\* generate_receipt_image(config, info) is entered: renderer = ReceiptRenderer(...)
ThreadCall ==
  /\ \E t \in Threads, layout \in ThreadLayouts, info \in ThreadRecords :
       /\ ~InCall(threads[t])
       /\ \E a \in {NewRenderer(Live(threads))} :
            /\ heap' = [heap EXCEPT ![a] = ReceiptRenderer(layout, DefaultWidth)]
            /\ threads' = [threads EXCEPT ![t] =
                             [at |-> "header_image", self |-> a, layout |-> layout,
                              info |-> info, row |-> 0, result |-> NoBitmap,
                              overlapped |-> FALSE]]
  /\ ThreadLeaves

\* one stage of renderer.render(info) in thread t
ThreadStage ==
  /\ \E t \in Threads :
       /\ InCall(threads[t]) /\ threads[t].at # "crop"
       /\ \E th \in {threads[t]} :
            \E r \in {RunStage(th.at, heap[th.self], th.info, th.row)} :
              /\ heap' = [heap EXCEPT ![th.self] = r]
              /\ threads' =
                   Overlap([threads EXCEPT ![t] =
                              [th EXCEPT !.at = FollowingStage(th.at, th.info, th.row),
                                         !.row = IF th.at = "item_row" THEN @ + 1 ELSE @]],
                           t)
  /\ ThreadLeaves

\* the crop; render and generate_receipt_image return, the local renderer
\* goes out of scope
ThreadReturn ==
  /\ \E t \in Threads :
       /\ threads[t].at = "crop"
       /\ \E th \in {threads[t]} :
            \E r \in {CropStage(heap[th.self])} :
              /\ heap' = [heap EXCEPT ![th.self] =
                            IF \E u \in Threads \ {t} :
                                 InCall(threads[u]) /\ threads[u].self = th.self
                              THEN r ELSE NoRenderer]
              /\ threads' =
                   Overlap([threads EXCEPT ![t] =
                              [th EXCEPT !.at = "returned", !.self = 0,
                                         !.result = Bitmap(r)]], t)
  /\ ThreadLeaves

ThreadNext == ThreadCall \/ ThreadStage \/ ThreadReturn

ThreadSpec == Init /\ [][ThreadNext]_vars

(***************************************************************************)
(* Properties.  A state with pc = "done" shows one finished request: req   *)
(* the payload it was given, arg the payload object from_dict was called   *)
(* with, norm.info the record from_dict returned.                          *)
(***************************************************************************)
\* from_dict was called and returned a record
Returned == pc = "done" /\ norm.exc = "none"

\* the key is in the block and its value is not null
Supplied(v) == Get(v) # None

\* the block from_dict reads the four amounts from: transaction_info, or for a
\* payload with a legacy key the block made of the top-level total and extras
TxRead(p) == IF _is_legacy_format(p) THEN LegacyTx(p) ELSE p.transaction_info

ItemsTotal == SumLineTotals(norm.info.items)

\* received and change of block tx are both supplied => total = received - change
C1_For(tx) ==
  Returned /\ Supplied(tx.received) /\ Supplied(tx.change)
    => norm.info.total = Num(float_sub(FloatVal(tx.received), FloatVal(tx.change)))

\* C1 as stated: for every payload in which transaction_info supplies both received
\* and change, the record from_dict returns has total = received - change
C1_TransactionInfoBoth == C1_For(arg.transaction_info)

\* C1 amended: when the block from_dict reads (transaction_info of a payload without
\* legacy keys, total and extras of a payload with one) supplies both received and
\* change, the record has total = received - change, whatever total, discount
\* and items are
C1_ReceivedMinusChange == C1_For(TxRead(arg))

\* both supplied beside a total and a discount, and neither the supplied total nor
\* the items sum equals received - change
C1_Witness ==
  /\ Returned
  /\ ~_is_legacy_format(arg)
  /\ Supplied(arg.transaction_info.received) /\ Supplied(arg.transaction_info.change)
  /\ Supplied(arg.transaction_info.total) /\ Supplied(arg.transaction_info.discount)
  /\ norm.info.total # Num(FloatVal(arg.transaction_info.total))
  /\ norm.info.total.n # ItemsTotal
  /\ norm.info.total.n = 1

\* C2: for every payload that supplies a discount d but neither received nor change,
\* the total is items_total - d if no total is supplied and exactly the supplied
\* total if one is, also when the supplied total equals items_total
C2_DiscountOnly ==
  LET tx == TxRead(arg)
  IN  Returned /\ Supplied(tx.discount) /\ ~Supplied(tx.received) /\ ~Supplied(tx.change)
        => norm.info.total = IF Supplied(tx.total) THEN Num(FloatVal(tx.total))
                             ELSE Num(ItemsTotal - FloatVal(tx.discount))

\* the total the total / discount rules fix for block tx
RulesTotal(tx) ==
  LET t == IF Supplied(tx.total) THEN FloatVal(tx.total) ELSE ItemsTotal
  IN  IF Supplied(tx.discount) /\ t = ItemsTotal THEN ItemsTotal - FloatVal(tx.discount)
      ELSE t

FooterHolds(key, v) ==
  /\ norm.info.footer_info.t = "dict"
  /\ HasKey(norm.info.footer_info.d, key)
  /\ Lookup(norm.info.footer_info.d, key) = v

\* exactly one of received / change of block tx is supplied => the other is derived,
\* the total is the one the total / discount rules fix, the footer holds both
C3_For(tx) ==
  Returned /\ (Supplied(tx.received) # Supplied(tx.change)) =>
    /\ norm.info.total = Num(RulesTotal(tx))
    /\ Supplied(tx.received) =>
         /\ norm.info.received = Num(FloatVal(tx.received))
         /\ norm.info.change = Num(float_sub(FloatVal(tx.received), norm.info.total.n))
    /\ Supplied(tx.change) =>
         /\ norm.info.change = Num(FloatVal(tx.change))
         /\ norm.info.received = Num(float_add(norm.info.total.n, FloatVal(tx.change)))
    /\ FooterHolds("Received", norm.info.received)
    /\ FooterHolds("Change", norm.info.change)

\* C3 as stated: for every payload whose transaction_info supplies exactly one of
\* received / change, the missing one is derived (change = received - total or
\* received = total + change), the total stays the one the total / discount rules
\* fix, and footer_info gains Received and Change with those values
C3_TransactionInfoOne == C3_For(arg.transaction_info)

\* C3 amended: the same for the block from_dict reads (transaction_info of a payload
\* without legacy keys, total and extras of a payload with one)
C3_DeriveMissing == C3_For(TxRead(arg))

\* only received supplied, and a change that is not zero derived from it
C3_Witness ==
  /\ Returned
  /\ ~_is_legacy_format(arg)
  /\ Supplied(arg.transaction_info.received) /\ ~Supplied(arg.transaction_info.change)
  /\ norm.info.change = Num(1)
  /\ FooterHolds("Change", Num(1))

\* received and change of block tx both supplied and no discount => discount =
\* items_total - total with total = received - change; a supplied discount stays
C4_For(tx) ==
  Returned =>
    /\ Supplied(tx.received) /\ Supplied(tx.change) /\ ~Supplied(tx.discount) =>
         /\ norm.info.total = Num(float_sub(FloatVal(tx.received), FloatVal(tx.change)))
         /\ norm.info.discount = Num(float_sub(ItemsTotal, norm.info.total.n))
    /\ Supplied(tx.discount) => norm.info.discount = Num(FloatVal(tx.discount))

C5_TotalNonNegative == Returned => norm.info.total # None /\ norm.info.total.n >= 0

\* C5 amended: in every record returned total is not null; it is not negative when
\* the block from_dict reads supplies no negative total, no discount above the
\* items sum and, if it supplies both received and change, no change above received
C5_TotalPresent ==
  LET tx == TxRead(arg)
  IN  Returned =>
        /\ norm.info.total # None
        /\ (/\ Supplied(tx.total) => FloatVal(tx.total) >= 0
            /\ Supplied(tx.discount) => FloatVal(tx.discount) <= ItemsTotal
            /\ Supplied(tx.received) /\ Supplied(tx.change)
                 => FloatVal(tx.change) <= FloatVal(tx.received))
           => norm.info.total.n >= 0

\* a discount as large as the items sum brings the total to zero
C5_Witness ==
  /\ Returned
  /\ Supplied(TxRead(arg).discount)
  /\ ~Supplied(TxRead(arg).total)
  /\ FloatVal(TxRead(arg).discount) = ItemsTotal
  /\ norm.info.total = Num(0)

\* an item that lacks name, amount or quantity, or whose amount or quantity is
\* no number
ItemDefect(i) ==
  \/ i.t # "dict"
  \/ i.name = Absent \/ i.amount = Absent \/ i.quantity = Absent
  \/ FloatExc(i.amount) # "none" \/ FloatExc(i.quantity) # "none"

\* items is missing, is not a list, is empty or holds such an item
ItemsDefect(p) ==
  \/ p.items.t # "list"
  \/ p.items.l = <<>>
  \/ \E k \in 1..Len(p.items.l) : ItemDefect(p.items.l[k])

\* C6: normalization (validate_payload then from_dict, and from_dict on its own)
\* fails with ValueError for every payload whose items key is missing, is not a
\* list, is empty, or holds an item that lacks name, amount or quantity or whose
\* amount or quantity is no number; no record returned has an empty items list
C6_ItemsRejected ==
  /\ pc = "done" /\ entry \in {"print_receipt", "printer_cli", "from_dict"}
       /\ req.t = "dict" /\ ItemsDefect(req)
       => \/ valid = "ValueError"
          \/ valid \in {"none", "uncalled"} /\ norm.exc = "ValueError"
  /\ Returned => norm.info.items # <<>>

\* a value that is supplied and is no number
NotNumeric(v) == Get(v) # None /\ FloatExc(v) # "none"

NotNumericIn(tx) ==
  NotNumeric(tx.received) \/ NotNumeric(tx.change) \/ NotNumeric(tx.discount)
  \/ NotNumeric(tx.total)

\* a required field is missing or ill-typed, or an amount, a quantity or a value
\* of the transaction block is no number, in canonical or legacy shape
Malformed(p) ==
  \/ p.t # "dict"
  \/ ItemsDefect(p)
  \/ p.header_info.t \notin {"absent", "null", "dict"}
  \/ p.footer_info.t \notin {"absent", "null", "dict"}
  \/ p.transaction_info.t \notin {"absent", "null", "dict"}
  \/ NotNumericIn(p.transaction_info)
  \/ /\ _is_legacy_format(p)
     /\ \/ p.customer.t \notin {"absent", "dict"}
        \/ p.extras.t \notin {"absent", "dict"}
        \/ NotNumericIn(p.extras)
        \/ NotNumeric(p.total)

\* C7: for every request with a malformed payload POST /print answers 400 and the
\* print CLIs return 2, nothing is rendered and no printer operation is made;
\* never a 500, an exit code 1 or an uncaught exception
C7_MalformedRejected ==
  pc = "done" /\ entry \in {"print_receipt", "printer_cli", "cli"} /\ Malformed(req)
    => /\ resp = Resp(IF entry = "print_receipt" THEN 400 ELSE 2, "none")
       /\ image = NoImage
       /\ ops = <<>>

\* the footer from_dict starts from: footer_info, or for a payload with a legacy key
\* the footer made of Points
FooterRead(p) == IF _is_legacy_format(p) THEN LegacyPayload(p).footer_info ELSE p.footer_info

\* the record's amount written under the footer key
Reconciled(key) ==
  CASE key = "Received" -> norm.info.received
    [] key = "Change" -> norm.info.change
    [] OTHER -> norm.info.discount

Position(d, key) == CHOOSE i \in 1..Len(d) : d[i].k = key

\* Received / Change / Discount are in the footer with the reconciled value when it
\* is not null; each entry of footer f0 that is not overwritten keeps its value,
\* and those entries keep their order; a Received / Change / Discount key is in
\* the footer only if it was written or was in f0
C8_For(f0) ==
  Returned =>
    LET f == norm.info.footer_info.d
        Written == {key \in {"Received", "Change", "Discount"} : Reconciled(key) # None}
        Kept == {i \in 1..Len(f0.d) : f0.d[i].k \notin Written}
    IN  /\ \A key \in Written : FooterHolds(key, Reconciled(key))
        /\ \A key \in {"Received", "Change", "Discount"} \ Written :
             HasKey(f, key) <=> HasKey(f0.d, key)
        /\ \A i \in Kept : HasKey(f, f0.d[i].k) /\ Lookup(f, f0.d[i].k) = f0.d[i].v
        /\ \A i, j \in Kept : i < j => Position(f, f0.d[i].k) < Position(f, f0.d[j].k)
        /\ \A i, j \in 1..Len(f) : f[i].k = f[j].k => i = j

\* C8 as stated: after normalization footer_info holds Received / Change / Discount
\* exactly for those that are not null after reconciliation, with the reconciled
\* value in place of the caller's; every other entry of the caller's footer_info
\* keeps its value and order, and a Received / Change / Discount key of the
\* caller whose amount stays null is left untouched
C8_CallerFooter == C8_For(arg.footer_info)

\* C8 amended: the same for the footer from_dict starts from: the caller's
\* footer_info for a payload without legacy keys, the Points entry alone for a
\* payload with one (the caller's footer_info is then not read)
C8_FooterPopulated == C8_For(FooterRead(arg))

\* a caller's Received entry is overwritten in place, its Note entry after it kept
C8_Witness ==
  /\ Returned
  /\ ~_is_legacy_format(arg)
  /\ arg.footer_info = Dict(<<Entry("Received", Str("old")), Entry("Note", Str("x"))>>)
  /\ norm.info.received = Num(2)
  /\ norm.info.footer_info.d[1] = Entry("Received", Num(2))
  /\ norm.info.footer_info.d[2] = Entry("Note", Str("x"))
  /\ Len(norm.info.footer_info.d) > 2

\* the header key a customer key is mapped to
CustomerKey(key) == "Customer " \o capitalize(key)

\* the canonical payload the legacy payload p stands for, but for its header and
\* footer: the items, and a transaction_info made of the top-level total and the
\* entries of extras
Remapped(p) ==
  Canonical(p.items, Header1, NoDict("absent"),
            Tx("dict", p.extras.received, p.extras.change, p.extras.discount,
               IF p.extras.total # Absent THEN p.extras.total ELSE p.total, p.extras.note))

\* the record of a payload with a legacy key: header_info holds exactly the
\* customer keys as Customer <Capitalized key>, each with the value of the last
\* customer entry mapped to it, and Transaction and Promotion when present;
\* footer_info holds Points when present and besides only Received / Change /
\* Discount; amounts and items are those canonical normalization gives for the
\* remapped payload
C9_Record ==
  Returned /\ _is_legacy_format(arg) =>
    LET h == norm.info.header_info.d
        f == norm.info.footer_info.d
        c == arg.customer.d
        canon == from_dict(Remapped(arg)).info
    IN  /\ {h[i].k : i \in 1..Len(h)} =
             {CustomerKey(c[i].k) : i \in 1..Len(c)}
             \cup (IF arg.transection # Absent THEN {"Transaction"} ELSE {})
             \cup (IF arg.promotion # Absent THEN {"Promotion"} ELSE {})
        /\ \A i \in 1..Len(c) :
             (\A j \in (i + 1)..Len(c) : CustomerKey(c[j].k) # CustomerKey(c[i].k))
               => Lookup(h, CustomerKey(c[i].k)) = c[i].v
        /\ arg.transection # Absent => Lookup(h, "Transaction") = arg.transection
        /\ arg.promotion # Absent => Lookup(h, "Promotion") = arg.promotion
        /\ arg.points # Absent <=> HasKey(f, "Points")
        /\ arg.points # Absent => Lookup(f, "Points") = arg.points
        /\ \A i \in 1..Len(f) : f[i].k \in {"Points", "Received", "Change", "Discount"}
        /\ norm.info.items = canon.items
        /\ norm.info.received = canon.received
        /\ norm.info.change = canon.change
        /\ norm.info.discount = canon.discount
        /\ norm.info.total = canon.total

\* the entries of the record's header_info that are no Transaction and Promotion
CustomerRows ==
  Len(norm.info.header_info.d)
  - (IF arg.transection # Absent THEN 1 ELSE 0) - (IF arg.promotion # Absent THEN 1 ELSE 0)

\* C9 as stated: for every payload with one of the keys customer, transection,
\* promotion, points, extras, from_dict returns the record of the remapped payload:
\* header_info has one Customer <Capitalized key> entry per customer entry plus
\* Transaction and Promotion when present, footer_info has Points when present,
\* the amounts come from the top-level total and extras, the items are unchanged
C9_OnePerCustomerEntry ==
  /\ C9_Record
  /\ Returned /\ _is_legacy_format(arg) => CustomerRows = Len(arg.customer.d)

\* C9 amended: header_info has one Customer <Capitalized key> entry per distinct
\* capitalized customer key, holding the value of the last customer entry with
\* that key; the rest as stated
C9_OnePerCapitalizedKey ==
  /\ C9_Record
  /\ Returned /\ _is_legacy_format(arg) =>
       CustomerRows =
         Cardinality({CustomerKey(arg.customer.d[i].k) : i \in 1..Len(arg.customer.d)})

\* a legacy payload with two customer entries, a transaction id, points and a
\* top-level total that differs from the items sum
C9_Witness ==
  /\ Returned
  /\ Len(arg.customer.d) = 2
  /\ HasKey(norm.info.header_info.d, "Customer Code")
  /\ HasKey(norm.info.header_info.d, "Transaction")
  /\ HasKey(norm.info.footer_info.d, "Points")
  /\ arg.total = Num(1)
  /\ norm.info.total = Num(1)
  /\ ItemsTotal = 3

\* C10: from_dict leaves the payload object it is given unchanged, footer_info and
\* header_info included; the record shares no dict with that payload; render
\* leaves the record as it was
C10_ExclusiveOwnership ==
  Returned =>
    /\ norm.payload = arg
    /\ norm.info.header_ref = "new"
    /\ norm.info.footer_ref = "new"
    /\ image # NoImage => image.info = norm.info

(***************************************************************************)
(* Properties of the renderer.  A state with rpc = "returned" shows one    *)
(* finished render call: record the record it drew, trace the stages it    *)
(* ran, bitmap what it returned.                                           *)
(***************************************************************************)
Rendering == rpc \notin {"none", "ready", "returned"}

\* the stages of one render call of a record, in the order the claim gives
ExpectedStages(info) ==
  <<Stage("header_image", 0), Stage("header_title", 0), Stage("header_description", 0),
    Stage("header_info", 0), Stage("receipt_title", 0), Stage("first_rule", 0),
    Stage("column_header", 0)>>
  \o [i \in 1..Len(info.items) |-> Stage("item_row", i)]
  \o <<Stage("second_rule", 0), Stage("total_line", 0), Stage("footer_info", 0),
       Stage("footer_label", 0), Stage("footer_image", 0), Stage("crop", 0)>>

IsPrefix(s, t) == Len(s) <= Len(t) /\ SubSeq(t, 1, Len(s)) = s

\* the marks a step has added to the canvas
NewMarks == SubSeq(renderer'.im, Len(renderer.im) + 1, Len(renderer'.im))

\* the first line of an item's name as column 1 shows it
NameLine(item) ==
  wrap_text(item.name, renderer.body_font,
            ColumnWidths(renderer.target_width - (2 * PADDING)).col1)[1]

\* C11: in every render call the stages run exactly once each and strictly in
\* the order header image, header title, header description, header key/value
\* block, receipt title, dashed rule, column header row, one row per item in
\* list order, dashed rule, total line, footer key/value block, footer label,
\* footer image, crop; the footer block begins with a dashed rule when
\* footer_info is non-empty; the header and footer key/value stages draw
\* nothing and move the cursor nowhere when their map is empty.
C11_StagesInOrder ==
  /\ [](Rendering \/ rpc = "returned" => IsPrefix(trace, ExpectedStages(record)))
  /\ [](rpc = "returned" => trace = ExpectedStages(record))
  /\ [][rpc = "item_row" /\ record.items[row + 1].name # <<>>
          => /\ NewMarks # <<>>
             /\ NewMarks[1].text = NameLine(record.items[row + 1])
             /\ NewMarks[1].y = renderer.y]_vars
  /\ [][rpc = "footer_info" /\ record.footer_info # <<>>
          => NewMarks # <<>> /\ NewMarks[1].kind = "rule"]_vars
  /\ [][rpc = "header_info" /\ record.header_info = <<>> => renderer' = renderer]_vars
  /\ [][rpc = "footer_info" /\ record.footer_info = <<>> => renderer' = renderer]_vars

\* a call has returned that drew two items, no header map and a footer map
C11_Witness ==
  /\ rpc = "returned"
  /\ record.header_info = <<>>
  /\ record.footer_info # <<>>
  /\ Len(record.items) = 2
  /\ Len(trace) = 15
  /\ \E i \in 1..Len(bitmap.im) : bitmap.im[i].kind = "rule" /\ i > 1

\* C12: while render runs the cursor y never decreases, whatever the record
\* and whatever line_spacing, font sizes and image scales the configuration
\* holds.
C12_CursorNeverDecreases == [][Rendering => renderer'.y >= renderer.y]_vars

\* C13: every render call works on a blank canvas with the cursor at the top:
\* the bitmap a call returns is the bitmap a new renderer of the same
\* configuration and width returns for the same record, also for the second
\* of two render calls on one ReceiptRenderer object.
C13_FreshCanvasPerCall ==
  rpc = "returned" => bitmap = FreshBitmap(renderer.config, record, renderer.target_width)

\* the entry points that print a rendered receipt, and those that print at all
RenderPaths == {"print_receipt", "printer_cli", "print_preview"}
PrintPaths == RenderPaths \cup {"cli"}

\* C14: the receipt bitmap rendered for a print request (POST /print, the
\* printer CLI, the UI print preview) is as wide as the configured
\* PRINTER.pixel_width, whatever value is configured.
C14_BitmapWidthIsPixelWidth ==
  pc = "done" /\ entry \in RenderPaths /\ image # NoImage
    => image.width = config.PRINTER.pixel_width

\* a configured header or footer image that is missing or unreadable
Broken(path) == path # NoFile /\ ImageOpenExc(get_real_path(path)) # "none"

\* the layout with the broken images taken out
WithoutBroken(layout) ==
  [layout EXCEPT !.header_image = IF Broken(@) THEN NoFile ELSE @,
                 !.footer_image = IF Broken(@) THEN NoFile ELSE @]

\* what the finished request leaves behind when hw is what the printer did
\* and no broken image is configured
Unbroken(hw) ==
  CASE entry = "print_receipt" -> print_receipt(req, hw)
    [] entry = "printer_cli" -> printer_cli_main(req, hw)
    [] entry = "print_preview" -> print_preview(req, hw)
    [] OTHER -> cli_main(req, hw, WithoutBroken(config.LAYOUT))

NotImageCall(call) == call # "print_image"

\* the printer calls apart from the calls for the header and footer image
OtherCalls(calls) == IF entry = "cli" THEN SelectSeq(calls, NotImageCall) ELSE calls

\* C16: a configured header or footer image that is missing or unreadable
\* never makes a receipt fail: on every print path the request ends with the
\* status and with the other printer calls it has when the image is not
\* configured at all.
C16_BrokenImageNeverFails ==
  pc = "done" /\ entry \in PrintPaths
    /\ (Broken(config.LAYOUT.header_image) \/ Broken(config.LAYOUT.footer_image))
    => \E hw \in HwOutcomes :
         \E ref \in {Unbroken(hw)} :
           resp = ref.resp /\ OtherCalls(ops) = OtherCalls(ref.ops)

\* C17: if the configured font file cannot be loaded, rendering fails: there
\* is no renderer that carries on with a substitute font and no bitmap is
\* produced.
C17_FontFailureIsFatal ==
  TruetypeExc(get_real_path(config.LAYOUT.font_path)) # "none"
    => renderer = NoRenderer /\ bitmap = NoBitmap

\* C15: for every image of positive width and height and every target width
\* of at least 1, _prepare_bitmap returns a bitmap exactly target wide: a
\* wider image is scaled down, a narrower one keeps its width and height and
\* sits at offset floor((target - width) / 2) on the canvas; an image of zero
\* width or height is rejected with an error, and no other image is.
C15_PreparedWidth ==
  prepared.called =>
    LET img == prepared.image
        target == prepared.pixel_width
        b == prepared.result
    IN  /\ (img.width = 0 \/ img.height = 0) <=> b.exc = "RuntimeError"
        /\ b.exc = "none" =>
             /\ b.width = target
             /\ img.width > target =>
                  b.content_width < img.width /\ b.content_width \in 1..target
             /\ img.width <= target =>
                  /\ b.content_width = img.width
                  /\ b.content_height = img.height
                  /\ b.height = img.height
                  /\ b.x_offset = (target - img.width) \div 2

\* a narrower image has been centred with a margin on its left
C15_Witness ==
  /\ prepared.called
  /\ prepared.result.exc = "none"
  /\ prepared.image.width < prepared.pixel_width
  /\ prepared.result.x_offset >= 1
  /\ prepared.result.width = prepared.pixel_width

HasSpace(line) == \E i \in 1..Len(line) : line[i] = " "
HasNewline(line) == \E i \in 1..Len(line) : line[i] = "\n"
FirstWord(line) == Head(split(line, " "))

\* the lines with the character that separated them put back between them
RECURSIVE Rejoin(_, _)
Rejoin(lines, seps) ==
  IF lines = <<>> THEN <<>>
  ELSE IF Len(lines) = 1 THEN Head(lines)
  ELSE Head(lines) \o <<Head(seps)>> \o Rejoin(Tail(lines), Tail(seps))

\* C18: each line wrap_text returns measures at most max_width or is a single
\* word; the lines are the text cut at newlines and at spaces only, every
\* newline starts a new line, and a line is cut at a space only where the
\* line with the next word behind it would exceed max_width.
C18_GreedyWrap ==
  wrapped.called =>
    /\ \A i \in 1..Len(wrapped.lines) :
         \/ Fits(WrapFont, wrapped.lines[i], wrapped.max_width)
         \/ ~HasSpace(wrapped.lines[i])
    /\ \A i \in 1..Len(wrapped.lines) : ~HasNewline(wrapped.lines[i])
    /\ \E seps \in [1..(Len(wrapped.lines) - 1) -> {" ", "\n"}] :
         /\ Rejoin(wrapped.lines, seps) = wrapped.text
         /\ \A i \in 1..(Len(wrapped.lines) - 1) :
              seps[i] = " " =>
                ~Fits(WrapFont,
                      wrapped.lines[i] \o <<" ">> \o FirstWord(wrapped.lines[i + 1]),
                      wrapped.max_width)

\* a text with a space and a newline was cut into three lines, one of them a
\* word wider than max_width
C18_Witness ==
  /\ wrapped.called
  /\ Len(wrapped.lines) = 3
  /\ HasSpace(wrapped.text) /\ HasNewline(wrapped.text)
  /\ \E i \in 1..3 : ~Fits(WrapFont, wrapped.lines[i], wrapped.max_width)

\* C19: wrapping is idempotent: each line of a wrap_text result, wrapped
\* again on its own, comes back as exactly that one line, be it a line that
\* fits, a single word that is too wide or an empty line.
C19_WrapIdempotent ==
  wrapped.fed =>
    \A i \in 1..Len(wrapped.lines) : wrapped.again[i] = <<wrapped.lines[i]>>

\* C20: every text the renderer draws centred starts at
\* floor((canvas width - line width) / 2), every text it draws right-aligned
\* at canvas width - line width, both clamped at 0, and every left-aligned
\* text at 0.
C20_AlignmentClamped ==
  \A i \in 1..Len(renderer.im) :
    LET m == renderer.im[i]
    IN  /\ m.align = "center" /\ m.kind = "text"
          => m.x = Max(0, (renderer.target_width - m.w) \div 2)
        /\ m.align = "right" => m.x = Max(0, renderer.target_width - m.w)
        /\ m.align = "left" => m.x = 0

\* C25: legacy normalisation terminates: the payload from_legacy_dict builds
\* holds header_info, items, footer_info and transaction_info only and is
\* never classified as legacy, so a request makes one from_dict call, or two
\* when its payload is legacy, whatever customer and extras hold.
C25_LegacyTerminates ==
  pc = "done" /\ norm.exc # "uncalled" =>
    /\ norm.calls \in {1, 2}
    /\ norm.calls = 2 => _is_legacy_format(arg)
    /\ arg.t = "dict" /\ _is_legacy_format(arg) /\ LegacyExc(arg) = "none" =>
         \E np \in {LegacyPayload(arg)} :
           /\ ~_is_legacy_format(np)
           /\ np.total = Absent
           /\ np.header_info.t = "dict" /\ np.footer_info.t = "dict"
           /\ np.transaction_info.t = "dict" /\ np.items = arg.items

\* a payload with a customer block and extras went through both functions
C25_Witness ==
  /\ Returned
  /\ norm.calls = 2
  /\ arg.customer.t = "dict" /\ Len(arg.customer.d) = 2
  /\ arg.extras.t = "dict" /\ arg.extras.note # Absent

\* received and change are both null or both set; discount is set with them,
\* and without them only if the block from_dict reads supplied it
PairedAmounts ==
  /\ (norm.info.received = None) <=> (norm.info.change = None)
  /\ norm.info.received # None => norm.info.discount # None
  /\ norm.info.received = None /\ norm.info.discount # None
       => Supplied(TxRead(arg).discount)

C27_TotalLineIsRecordTotal ==
  pc = "done" /\ image # NoImage => image.total = norm.info.total.n

\* C30: POST /print with a payload that passes validate_payload answers 200
\* when print_image and cut succeed; no request that has printed ends in an
\* error that is not the printer's.
C30_ValidPayloadPrints ==
  pc = "done" /\ entry = "print_receipt" /\ valid = "none" /\ norm.exc = "none" =>
    \E hw \in HwOutcomes :
      ops = PrintOps(hw) /\ resp = Resp(IF hw = "ok" THEN 200 ELSE 500, "none")

\* the scale percentage brought into 0..100
ClampedScale(scale) == Max(0, IF scale > 100 THEN 100 ELSE scale)

\* C21: the image scale is clamped to 0..100 when it is consumed: whatever
\* integer header_image_scale / footer_image_scale hold, an embedded image is
\* no wider than the content width, its paste offset is not negative and
\* its width is content width * clamped scale / 100.
C21_ScaleClamped ==
  \A i \in 1..Len(renderer.im) :
    LET m == renderer.im[i]
        base_w == renderer.target_width - (2 * PADDING)
    IN  m.kind = "image" =>
          /\ m.w <= base_w
          /\ m.x >= 0
          /\ \E scale \in {config.LAYOUT.header_image_scale,
                            config.LAYOUT.footer_image_scale} :
               m.w = Max(1, (base_w * ClampedScale(scale)) \div 100)

\* C29: nothing is drawn beyond the provisional canvas: when render returns,
\* the cursor, and with it the height of the cropped bitmap, is at most
\* temp_h, and the bitmap is target_width wide.
C29_CanvasHoldsReceipt ==
  rpc = "returned" =>
    /\ renderer.y <= temp_h
    /\ bitmap.height <= temp_h
    /\ bitmap.width = renderer.target_width

\* C28: in POST /print, POST /open-drawer and the print and drawer commands,
\* once the ReceiptPrinter exists, disconnect() is called before the handler
\* returns, whether the methods succeeded or connect, print_image, cut or
\* kick_drawer failed; after it the device handle is None, also when closing
\* raised; and however many methods are called, connect() opens one handle
\* at most before the disconnect.
HandlesOpened == Cardinality({i \in 1..Len(journal) : journal[i] = "Win32Raw"})

C28_ConnectionLifecycle ==
  /\ HandlesOpened <= 1
  /\ printer.device # NoDevice => HandlesOpened = 1
  /\ caller.state = "returned" =>
       /\ printer.device = NoDevice
       /\ \E i \in 1..Len(journal) :
            /\ journal[i] = "disconnect"
            /\ \A j \in (i + 1)..Len(journal) :
                 journal[j] \in {"device.close", "device.close raises"}

\* a print request that connected once for two methods, and whose device
\* refused to close
C28_Witness ==
  /\ caller.state = "returned"
  /\ caller.name = "print_receipt"
  /\ journal = <<"print_image", "Win32Raw", "device.image", "cut", "device.cut",
                 "disconnect", "device.close raises">>

\* C24 as stated: after any calls of reload, save_all and update_section the
\* tree of get_all() has exactly the sections PRINTER, LAYOUT and SERVICE, each
\* with every default key, and equals the tree in the settings file;
\* update_section with an unknown section raises KeyError and changes neither.
KeysOf(dict) == {dict.d[i].k : i \in 1..Len(dict.d)}

DefaultShape(tree) ==
  /\ Len(tree.d) = Len(_DEFAULTS.d)
  /\ KeysOf(tree) = KeysOf(_DEFAULTS)
  /\ \A section \in KeysOf(_DEFAULTS) :
       /\ Lookup(tree.d, section).t = "dict"
       /\ KeysOf(Lookup(_DEFAULTS.d, section)) \subseteq KeysOf(Lookup(tree.d, section))

UnknownSectionRefused ==
  lastcall'.name = "update_section" /\ lastcall'.section \notin KeysOf(_DATA)
    => lastcall'.raised = "KeyError" /\ UNCHANGED <<_DATA, _CONFIG_FILE>>

C24_MemoryEqualsFile ==
  /\ [](Imported => DefaultShape(_DATA) /\ _DATA = _CONFIG_FILE.tree)
  /\ [][UnknownSectionRefused]_vars

\* C24, amended: the tree of get_all() has the default shape and is the
\* defaults-merged form of the tree in the settings file; it equals the tree in
\* the file once the store itself has written the file (when it created the
\* file, in save_all, in update_section), while a file found at start with
\* sections or keys missing is read and left as it is.  update_section with an
\* unknown section raises KeyError and changes neither.
C24_MemoryIsMergedFile ==
  /\ [](Imported =>
          /\ DefaultShape(_DATA)
          /\ _CONFIG_FILE.exists
          /\ _DATA = _merge_with_defaults(_CONFIG_FILE.tree)
          /\ _CONFIG_FILE.writer = "settings" => _DATA = _CONFIG_FILE.tree)
  /\ [][UnknownSectionRefused]_vars

\* a file that lacked keys was loaded and then updated
C24_Witness ==
  /\ lastcall = [name |-> "update_section", section |-> "SERVICE", raised |-> "none"]
  /\ Lookup(Lookup(_DATA.d, "PRINTER").d, "usb_port") = Str("USB002")
  /\ Lookup(Lookup(_DATA.d, "SERVICE").d, "debug") = Bool(FALSE)
  /\ _CONFIG_FILE = File(TRUE, _DATA, "settings")

\* C23: in the configuration window Save and Cancel are enabled exactly when
\* the typed value of some editable field differs from the configuration last
\* saved, after any edits and any use of Save, Cancel and Reset Default.
Editable(f) == f.type \in {"str", "int", "bool"}

Changed(i) ==
  _get_typed_value(ui._variables[i], FIELD_SPECS[i].type)
    # _get_typed_value(ConfigGet(ui._data, FIELD_SPECS[i].section, FIELD_SPECS[i].key,
                                 None), FIELD_SPECS[i].type)

C23_ButtonsFollowChanges ==
  ui.built =>
    \A button \in {ui.save, ui.cancel} :
      button = "enabled" <=> \E i \in Fields : Editable(FIELD_SPECS[i]) /\ Changed(i)

\* C22: two calls of generate_receipt_image running in two threads, in any
\* interleaving of their stages, each return the bitmap the call returns when
\* it runs alone.
C22_ConcurrentRendersIndependent ==
  \A t \in Threads :
    threads[t].at = "returned"
      => threads[t].result = FreshBitmap(threads[t].layout, threads[t].info, DefaultWidth)

\* a call has returned whose stages were interleaved with those of a call for
\* another record and another layout, which is still in progress
C22_Witness ==
  /\ threads[1].at = "returned" /\ threads[1].overlapped
  /\ threads[2].at = "total_line" /\ threads[2].overlapped
  /\ threads[1].info # threads[2].info
  /\ threads[1].layout # threads[2].layout
  /\ threads[1].result.im # <<>>
====
